---- MODULE Spec2Model ----
(***************************************************************************)
(* Model of the operation-driven external API gateway:                     *)
(*   src/external_api.py  (argument router, path filling, URL building,    *)
(*                         request executor)                               *)
(*   src/app.py           (keyword strategy of the operation resolver)     *)
(*                                                                         *)
(* Python values are tagged records; a Python str is a sequence of         *)
(* one-character strings, so that substring tests, str.replace, str.lower, *)
(* json.loads, json.dumps and urlencode are computed character by          *)
(* character, as the interpreter computes them.                            *)
(***************************************************************************)
EXTENDS Integers, Sequences, FiniteSets, TLC

(***************************************************************************)
(* Python values                                                           *)
(***************************************************************************)
PyNone == [t |-> "none"]

PyStr(s) == [t |-> "str", s |-> s]

PyInt(n) == [t |-> "int", n |-> n]

PyBool(b) == [t |-> "bool", b |-> b]

PyList(items) == [t |-> "list", items |-> items]

\* A dict is its entries <<key, value>> in insertion order; keys are strs.
PyDict(kv) == [t |-> "dict", kv |-> kv]

EmptyDict == PyDict(<<>>)

IsNone(v) == v.t = "none"

IsStr(v) == v.t = "str"

IsDict(v) == v.t = "dict"

\* bool(v): the truth value Python gives `v` in `v or {}`, `if not v`.
Truthy(v) ==
  CASE v.t = "none" -> FALSE
    [] v.t = "str"  -> Len(v.s) > 0
    [] v.t = "int"  -> v.n # 0
    [] v.t = "bool" -> v.b
    [] v.t = "list" -> Len(v.items) > 0
    [] v.t = "dict" -> Len(v.kv) > 0

\* a or b
PyOr(a, b) == IF Truthy(a) THEN a ELSE b

(***************************************************************************)
(* dict operations                                                         *)
(***************************************************************************)
HasKey(kv, k) == \E i \in 1..Len(kv) : kv[i][1] = k

KeyIndex(kv, k) == CHOOSE i \in 1..Len(kv) : kv[i][1] = k

\* d[k] for a key that is present
DictAt(kv, k) == kv[KeyIndex(kv, k)][2]

\* d[k] = v : an existing key keeps its place, a new key is appended
DictSet(kv, k, v) ==
  IF HasKey(kv, k)
  THEN [kv EXCEPT ![KeyIndex(kv, k)] = <<k, v>>]
  ELSE Append(kv, <<k, v>>)

(***************************************************************************)
(* str operations                                                          *)
(***************************************************************************)
\* s[i:j] with 1-based inclusive bounds
Slice(s, i, j) == IF j < i THEN <<>> ELSE SubSeq(s, i, j)

\* whether pat occurs in s at position i
MatchAt(s, pat, i) ==
  /\ i >= 1
  /\ i + Len(pat) - 1 <= Len(s)
  /\ \A k \in 1..Len(pat) : s[i + k - 1] = pat[k]

\* pat in s
Contains(s, pat) == \E i \in 1..(Len(s) + 1) : MatchAt(s, pat, i)

UpperAlpha ==
  <<"A", "B", "C", "D", "E", "F", "G", "H", "I", "J", "K", "L", "M",
    "N", "O", "P", "Q", "R", "S", "T", "U", "V", "W", "X", "Y", "Z">>

LowerAlpha ==
  <<"a", "b", "c", "d", "e", "f", "g", "h", "i", "j", "k", "l", "m",
    "n", "o", "p", "q", "r", "s", "t", "u", "v", "w", "x", "y", "z">>

\* str.lower() of one character
LowerChar(c) ==
  IF \E i \in 1..26 : UpperAlpha[i] = c
  THEN LowerAlpha[CHOOSE i \in 1..26 : UpperAlpha[i] = c]
  ELSE c

Lower(s) == [i \in 1..Len(s) |-> LowerChar(s[i])]

IsSpace(c) == c \in {" ", "\n", "\t", "\r"}

RECURSIVE LStrip(_)
LStrip(s) == IF s # <<>> /\ IsSpace(Head(s)) THEN LStrip(Tail(s)) ELSE s

RECURSIVE RStrip(_)
RStrip(s) ==
  IF s # <<>> /\ IsSpace(s[Len(s)]) THEN RStrip(SubSeq(s, 1, Len(s) - 1)) ELSE s

\* str.strip()
Strip(s) == RStrip(LStrip(s))

\* str.replace(old, new): leftmost non-overlapping occurrences, one pass;
\* the text put in for an occurrence is not scanned again.
RECURSIVE Replace(_, _, _)
Replace(s, old, new) ==
  IF s = <<>> THEN <<>>
  ELSE IF old # <<>> /\ MatchAt(s, old, 1)
       THEN new \o Replace(Slice(s, Len(old) + 1, Len(s)), old, new)
       ELSE <<Head(s)>> \o Replace(Tail(s), old, new)

\* sep.join(parts)
RECURSIVE Join(_, _)
Join(sep, parts) ==
  IF parts = <<>> THEN <<>>
  ELSE IF Len(parts) = 1 THEN parts[1]
  ELSE parts[1] \o sep \o Join(sep, Tail(parts))

Digits == <<"0", "1", "2", "3", "4", "5", "6", "7", "8", "9">>

IsDigit(c) == \E d \in 1..10 : Digits[d] = c

DigitVal(c) == (CHOOSE d \in 1..10 : Digits[d] = c) - 1

\* str(n) for an int
RECURSIVE NatToStr(_)
NatToStr(n) ==
  IF n < 10 THEN <<Digits[n + 1]>>
  ELSE NatToStr(n \div 10) \o <<Digits[(n % 10) + 1]>>

IntToStr(n) == IF n < 0 THEN <<"-">> \o NatToStr(0 - n) ELSE NatToStr(n)

(***************************************************************************)
(* str(v) and repr(v)                                                      *)
(***************************************************************************)
\* the escapes repr() writes inside a str literal quoted with q
ReprChar(c, q) ==
  CASE c = "\\" -> <<"\\", "\\">>
    [] c = "\n" -> <<"\\", "n">>
    [] c = "\t" -> <<"\\", "t">>
    [] c = "\r" -> <<"\\", "r">>
    [] c = q    -> <<"\\", q>>
    [] OTHER    -> <<c>>

RECURSIVE Flatten(_)
Flatten(parts) == IF parts = <<>> THEN <<>> ELSE Head(parts) \o Flatten(Tail(parts))

\* repr(s) of a str: single quotes, unless s holds a ' and no "
ReprStr(s) ==
  LET q == IF Contains(s, <<"'">>) /\ ~Contains(s, <<"\"">>) THEN "\"" ELSE "'"
  IN  <<q>> \o Flatten([i \in 1..Len(s) |-> ReprChar(s[i], q)]) \o <<q>>

RECURSIVE Repr(_)
Repr(v) ==
  CASE v.t = "none" -> <<"N", "o", "n", "e">>
    [] v.t = "bool" -> IF v.b THEN <<"T", "r", "u", "e">> ELSE <<"F", "a", "l", "s", "e">>
    [] v.t = "int"  -> IntToStr(v.n)
    [] v.t = "str"  -> ReprStr(v.s)
    [] v.t = "list" ->
         <<"[">> \o Join(<<",", " ">>, [i \in 1..Len(v.items) |-> Repr(v.items[i])]) \o <<"]">>
    [] v.t = "dict" ->
         <<"{">> \o Join(<<",", " ">>,
                         [i \in 1..Len(v.kv) |->
                            ReprStr(v.kv[i][1]) \o <<":", " ">> \o Repr(v.kv[i][2])])
               \o <<"}">>

\* str(v)
StrOf(v) == IF v.t = "str" THEN v.s ELSE Repr(v)

(***************************************************************************)
(* json.loads and json.dumps                                               *)
(***************************************************************************)
JsonFail == [ok |-> FALSE]

JsonOk(v, next) == [ok |-> TRUE, v |-> v, next |-> next]

\* the position of the first character at or after i that is not whitespace
RECURSIVE SkipWs(_, _)
SkipWs(s, i) == IF i <= Len(s) /\ IsSpace(s[i]) THEN SkipWs(s, i + 1) ELSE i

\* the characters of a string literal whose opening quote precedes i
RECURSIVE JsonString(_, _, _)
JsonString(s, i, acc) ==
  IF i > Len(s) THEN JsonFail
  ELSE IF s[i] = "\"" THEN JsonOk(PyStr(acc), i + 1)
  ELSE IF s[i] = "\\" THEN
         IF i + 1 > Len(s) THEN JsonFail
         ELSE IF s[i + 1] \in {"\"", "\\", "/"} THEN JsonString(s, i + 2, Append(acc, s[i + 1]))
         ELSE IF s[i + 1] = "n" THEN JsonString(s, i + 2, Append(acc, "\n"))
         ELSE IF s[i + 1] = "t" THEN JsonString(s, i + 2, Append(acc, "\t"))
         ELSE IF s[i + 1] = "r" THEN JsonString(s, i + 2, Append(acc, "\r"))
         ELSE JsonFail
  ELSE IF s[i] \in {"\n", "\t", "\r"} THEN JsonFail
  ELSE JsonString(s, i + 1, Append(acc, s[i]))

RECURSIVE ScanDigits(_, _)
ScanDigits(s, i) == IF i <= Len(s) /\ IsDigit(s[i]) THEN ScanDigits(s, i + 1) ELSE i

RECURSIVE DigitsToNat(_)
DigitsToNat(ds) ==
  IF ds = <<>> THEN 0
  ELSE 10 * DigitsToNat(SubSeq(ds, 1, Len(ds) - 1)) + DigitVal(ds[Len(ds)])

\* an integer literal at i: -?(0|[1-9][0-9]*)
JsonNumber(s, i) ==
  LET neg == s[i] = "-"
      j   == IF neg THEN i + 1 ELSE i
      k   == IF j <= Len(s) /\ s[j] = "0" THEN j + 1 ELSE ScanDigits(s, j)
      n   == DigitsToNat(Slice(s, j, k - 1))
  IN  IF k = j THEN JsonFail ELSE JsonOk(PyInt(IF neg THEN 0 - n ELSE n), k)

RECURSIVE JsonValue(_, _)
RECURSIVE JsonElems(_, _, _)
RECURSIVE JsonMembers(_, _, _)

\* the value that starts at i (whitespace before it already skipped)
JsonValue(s, i) ==
  IF i > Len(s) THEN JsonFail
  ELSE IF s[i] = "\"" THEN JsonString(s, i + 1, <<>>)
  ELSE IF s[i] = "{" THEN
         LET j == SkipWs(s, i + 1)
         IN  IF j <= Len(s) /\ s[j] = "}" THEN JsonOk(EmptyDict, j + 1)
             ELSE JsonMembers(s, j, <<>>)
  ELSE IF s[i] = "[" THEN
         LET j == SkipWs(s, i + 1)
         IN  IF j <= Len(s) /\ s[j] = "]" THEN JsonOk(PyList(<<>>), j + 1)
             ELSE JsonElems(s, j, <<>>)
  ELSE IF MatchAt(s, <<"n", "u", "l", "l">>, i) THEN JsonOk(PyNone, i + 4)
  ELSE IF MatchAt(s, <<"t", "r", "u", "e">>, i) THEN JsonOk(PyBool(TRUE), i + 4)
  ELSE IF MatchAt(s, <<"f", "a", "l", "s", "e">>, i) THEN JsonOk(PyBool(FALSE), i + 5)
  ELSE IF s[i] = "-" \/ IsDigit(s[i]) THEN JsonNumber(s, i)
  ELSE JsonFail

\* the elements of an array from i on, up to its closing bracket
JsonElems(s, i, acc) ==
  LET r == JsonValue(s, i)
  IN  IF ~r.ok THEN JsonFail
      ELSE LET j == SkipWs(s, r.next)
           IN  IF j > Len(s) THEN JsonFail
               ELSE IF s[j] = "]" THEN JsonOk(PyList(Append(acc, r.v)), j + 1)
               ELSE IF s[j] = "," THEN JsonElems(s, SkipWs(s, j + 1), Append(acc, r.v))
               ELSE JsonFail

\* the members of an object from i on, up to its closing brace; a repeated
\* key keeps its first place and takes its last value
JsonMembers(s, i, acc) ==
  IF i > Len(s) \/ s[i] # "\"" THEN JsonFail
  ELSE LET k == JsonString(s, i + 1, <<>>)
       IN  IF ~k.ok THEN JsonFail
           ELSE LET c == SkipWs(s, k.next)
                IN  IF c > Len(s) \/ s[c] # ":" THEN JsonFail
                    ELSE LET r == JsonValue(s, SkipWs(s, c + 1))
                         IN  IF ~r.ok THEN JsonFail
                             ELSE LET j == SkipWs(s, r.next)
                                      kv == DictSet(acc, k.v.s, r.v)
                                  IN  IF j > Len(s) THEN JsonFail
                                      ELSE IF s[j] = "}" THEN JsonOk(PyDict(kv), j + 1)
                                      ELSE IF s[j] = "," THEN JsonMembers(s, SkipWs(s, j + 1), kv)
                                      ELSE JsonFail

\* json.loads(s): [ok |-> TRUE, v |-> value], or [ok |-> FALSE] where
\* Python raises json.JSONDecodeError
JsonLoads(s) ==
  LET r == JsonValue(s, SkipWs(s, 1))
  IN  IF r.ok /\ SkipWs(s, r.next) = Len(s) + 1 THEN [ok |-> TRUE, v |-> r.v]
      ELSE JsonFail

JsonEscape(c) ==
  CASE c = "\"" -> <<"\\", "\"">>
    [] c = "\\" -> <<"\\", "\\">>
    [] c = "\n" -> <<"\\", "n">>
    [] c = "\t" -> <<"\\", "t">>
    [] c = "\r" -> <<"\\", "r">>
    [] OTHER    -> <<c>>

JsonQuote(s) == <<"\"">> \o Flatten([i \in 1..Len(s) |-> JsonEscape(s[i])]) \o <<"\"">>

\* json.dumps(v) with the default separators ", " and ": "
RECURSIVE JsonDumps(_)
JsonDumps(v) ==
  CASE v.t = "none" -> <<"n", "u", "l", "l">>
    [] v.t = "bool" -> IF v.b THEN <<"t", "r", "u", "e">> ELSE <<"f", "a", "l", "s", "e">>
    [] v.t = "int"  -> IntToStr(v.n)
    [] v.t = "str"  -> JsonQuote(v.s)
    [] v.t = "list" ->
         <<"[">> \o Join(<<",", " ">>, [i \in 1..Len(v.items) |-> JsonDumps(v.items[i])]) \o <<"]">>
    [] v.t = "dict" ->
         <<"{">> \o Join(<<",", " ">>,
                         [i \in 1..Len(v.kv) |->
                            JsonQuote(v.kv[i][1]) \o <<":", " ">> \o JsonDumps(v.kv[i][2])])
               \o <<"}">>

(***************************************************************************)
(* bytes, UTF-8 and urllib.parse.quote_plus                                *)
(***************************************************************************)
\* the characters with code points 32..126, in code-point order (code point
\* 96, the grave accent, is written "GRAVE")
AsciiPrintable ==
  <<
    " ", "!", "\"", "#", "$", "%", "&", "'", "(", ")", "*", "+",
    ",", "-", ".", "/", "0", "1", "2", "3", "4", "5", "6", "7",
    "8", "9", ":", ";", "<", "=", ">", "?", "@", "A", "B", "C",
    "D", "E", "F", "G", "H", "I", "J", "K", "L", "M", "N", "O",
    "P", "Q", "R", "S", "T", "U", "V", "W", "X", "Y", "Z", "[",
    "\\", "]", "^", "_", "GRAVE", "a", "b", "c", "d", "e", "f", "g",
    "h", "i", "j", "k", "l", "m", "n", "o", "p", "q", "r", "s",
    "t", "u", "v", "w", "x", "y", "z", "{", "|", "}", "~"
  >>

\* ord(c)
Ord(c) ==
  CASE c = "\t" -> 9
    [] c = "\n" -> 10
    [] c = "\r" -> 13
    [] OTHER    -> 31 + (CHOOSE i \in 1..Len(AsciiPrintable) : AsciiPrintable[i] = c)

\* the character U+FFFD that errors="replace" puts for an undecodable byte
ReplacementChar == "U+FFFD"

\* one byte decoded: ASCII bytes are their characters; a byte that starts no
\* valid UTF-8 sequence is replaced
DecodeByte(b) ==
  CASE b = 9  -> "\t"
    [] b = 10 -> "\n"
    [] b = 13 -> "\r"
    [] b >= 32 /\ b <= 126 -> AsciiPrintable[b - 31]
    [] OTHER -> ReplacementChar

\* bytes.decode("utf-8", errors="replace") for ASCII bytes and lone invalid bytes
Utf8Decode(bytes) == [i \in 1..Len(bytes) |-> DecodeByte(bytes[i])]

\* str.encode("utf-8") of an ASCII str
Utf8Encode(s) == [i \in 1..Len(s) |-> Ord(s[i])]

HexDigits == <<"0", "1", "2", "3", "4", "5", "6", "7", "8", "9", "A", "B", "C", "D", "E", "F">>

IsAlnum(c) ==
  \/ IsDigit(c)
  \/ \E i \in 1..26 : UpperAlpha[i] = c \/ LowerAlpha[i] = c

\* quote_plus of one character: unreserved characters stay, a space becomes
\* "+", anything else is %XX
QuotePlusChar(c) ==
  IF IsAlnum(c) \/ c \in {"_", ".", "-", "~"} THEN <<c>>
  ELSE IF c = " " THEN <<"+">>
  ELSE <<"%", HexDigits[(Ord(c) \div 16) + 1], HexDigits[(Ord(c) % 16) + 1]>>

QuotePlus(s) == Flatten([i \in 1..Len(s) |-> QuotePlusChar(s[i])])

\* urllib.parse.urlencode(d) of a dict: k=v pairs joined by "&", keys and
\* values passed through str() and quote_plus
UrlEncode(kv) ==
  Join(<<"&">>,
       [i \in 1..Len(kv) |-> QuotePlus(kv[i][1]) \o <<"=">> \o QuotePlus(StrOf(kv[i][2]))])

UpperChar(c) ==
  IF \E i \in 1..26 : LowerAlpha[i] = c
  THEN UpperAlpha[CHOOSE i \in 1..26 : LowerAlpha[i] = c]
  ELSE c

\* str.upper()
Upper(s) == [i \in 1..Len(s) |-> UpperChar(s[i])]

(***************************************************************************)
(* Argument router and request building (src/external_api.py)              *)
(***************************************************************************)
\* d.get(k)
DictGet(kv, k) == IF HasKey(kv, k) THEN DictAt(kv, k) ELSE PyNone

\* _operation_params_schema_list(op): the parameter dicts that have a name
operation_params_schema_list(op) ==
  LET raw == op.parameters_schema
  IN  IF ~Truthy(raw) THEN <<>>
      ELSE IF raw.t = "list" THEN SelectSeq(raw.items, LAMBDA p : Truthy(p.name))
      ELSE <<>>

\* loc = (p.get("in") or "query").lower()
ParamLoc(p) == Lower(PyOr(p.in, PyStr(<<"q", "u", "e", "r", "y">>)).s)

\* a variant of the loop that leaves out `if name not in args: continue`
RECURSIVE RouteParamsNoMembershipTest(_, _, _, _, _)
RouteParamsNoMembershipTest(params_list, args, i, path_params, query_params) ==
  IF i > Len(params_list) THEN <<path_params, query_params>>
  ELSE LET p    == params_list[i]
           loc  == ParamLoc(p)
           name == p.name.s
       IN  IF loc = <<"p", "a", "t", "h">>
           THEN RouteParamsNoMembershipTest(params_list, args, i + 1,
                            DictSet(path_params, name, DictGet(args, name)), query_params)
           ELSE IF loc = <<"q", "u", "e", "r", "y">>
           THEN RouteParamsNoMembershipTest(params_list, args, i + 1,
                            path_params, DictSet(query_params, name, DictGet(args, name)))
           ELSE RouteParamsNoMembershipTest(params_list, args, i + 1, path_params, query_params)

\* the loop of args_to_request_parts over params_list[i..]
RECURSIVE RouteParams(_, _, _, _, _)
RouteParams(params_list, args, i, path_params, query_params) ==
  IF i > Len(params_list) THEN <<path_params, query_params>>
  ELSE LET p    == params_list[i]
           loc  == ParamLoc(p)
           name == p.name.s
       IN  IF ~HasKey(args, name)
           THEN RouteParams(params_list, args, i + 1, path_params, query_params)
           ELSE IF loc = <<"p", "a", "t", "h">>
           THEN RouteParams(params_list, args, i + 1,
                            DictSet(path_params, name, DictAt(args, name)), query_params)
           ELSE IF loc = <<"q", "u", "e", "r", "y">>
           THEN RouteParams(params_list, args, i + 1,
                            path_params, DictSet(query_params, name, DictAt(args, name)))
           ELSE RouteParams(params_list, args, i + 1, path_params, query_params)

\* args_to_request_parts(operation, args):
\* [path_params, query_params, request_body]
args_to_request_parts(operation, args) ==
  LET a      == IF IsDict(args) THEN args.kv ELSE <<>>
      routed == RouteParams(operation_params_schema_list(operation), a, 1, <<>>, <<>>)
      rb     == DictGet(a, <<"r", "e", "q", "u", "e", "s", "t", "_", "b", "o", "d", "y">>)
  IN  [path_params  |-> PyDict(routed[1]),
       query_params |-> PyDict(routed[2]),
       request_body |-> IF ~IsNone(rb) THEN rb ELSE DictGet(a, <<"b", "o", "d", "y">>)]

\* the loop of _fill_path_template over the entries kv[i..] of path_params
RECURSIVE FillLoop(_, _, _)
FillLoop(result, kv, i) ==
  IF i > Len(kv) THEN result
  ELSE FillLoop(Replace(result, <<"{">> \o kv[i][1] \o <<"}">>, StrOf(kv[i][2])), kv, i + 1)

\* _fill_path_template(template, path_params): [raised |-> FALSE, v |-> str],
\* or [raised |-> TRUE, exc |-> ...] when path_params.items() does not exist
fill_path_template(template, path_params) ==
  IF ~Truthy(path_params) THEN [raised |-> FALSE, v |-> template]
  ELSE IF ~IsDict(path_params) THEN [raised |-> TRUE, exc |-> "AttributeError"]
  ELSE [raised |-> FALSE, v |-> FillLoop(template, path_params.kv, 1)]

\* a variant that appends every entry of query_params to the URL
FilteredQueryKeepsAll(kv) == kv

\* filtered = {k: v for k, v in query_params.items() if v is not None and v != ""}
FilteredQuery(kv) == SelectSeq(kv, LAMBDA e : ~IsNone(e[2]) /\ e[2] # PyStr(<<>>))

\* _build_url(base_url, path_template, path_params, query_params)
build_url(base_url, path_template, path_params, query_params) ==
  LET path == fill_path_template(path_template, path_params)
  IN  IF path.raised THEN path
      ELSE LET url == base_url \o path.v
           IN  IF Truthy(query_params) /\ IsDict(query_params)
                  /\ FilteredQuery(query_params.kv) # <<>>
               THEN [raised |-> FALSE,
                     v |-> url \o <<"?">> \o UrlEncode(FilteredQuery(query_params.kv))]
               ELSE [raised |-> FALSE, v |-> url]

(***************************************************************************)
(* Keyword strategy (src/app.py)                                           *)
(***************************************************************************)
\* _EXTERNAL_API_KEYWORD_TO_MATCH, in the order of the dict literal:
\* keyword, substrings for the fallback match, preferred resource or None
EXTERNAL_API_KEYWORD_TO_MATCH ==
  << [kw |-> <<"a", "i", "r", "p", "o", "r", "t">>,
      subs |-> << <<"a", "i", "r", "p", "o", "r", "t">>,
                  <<"a", "i", "r", "p", "o", "r", "t", "s">> >>,
      resource |-> PyStr(<<"a", "i", "r", "p", "o", "r", "t", "s">>)],
     [kw |-> <<"p", "a", "s", "s", "e", "n", "g", "e", "r">>,
      subs |-> << <<"p", "a", "s", "s", "e", "n", "g", "e", "r">>,
                  <<"p", "a", "s", "s", "e", "n", "g", "e", "r", "s">> >>,
      resource |-> PyStr(<<"p", "a", "s", "s", "e", "n", "g", "e", "r", "s">>)],
     [kw |-> <<"h", "o", "t", "e", "l">>,
      subs |-> << <<"h", "o", "t", "e", "l">>, <<"h", "o", "t", "e", "l", "s">> >>,
      resource |-> PyStr(<<"h", "o", "t", "e", "l", "s">>)],
     [kw |-> <<"f", "l", "y", "t", "e", "l">>,
      subs |-> << <<"f", "l", "y", "t", "e", "l">> >>,
      resource |-> PyNone],
     [kw |-> <<"f", "l", "i", "g", "h", "t">>,
      subs |-> << <<"f", "l", "i", "g", "h", "t">>, <<"f", "l", "i", "g", "h", "t", "s">> >>,
      resource |-> PyNone],
     [kw |-> <<"d", "a", "s", "h", "b", "o", "a", "r", "d">>,
      subs |-> << <<"d", "a", "s", "h", "b", "o", "a", "r", "d">> >>,
      resource |-> PyNone],
     [kw |-> <<"s", "e", "t", "t", "i", "n", "g", "s">>,
      subs |-> << <<"s", "e", "t", "t", "i", "n", "g", "s">> >>,
      resource |-> PyNone] >>

LIST_INTENT_PHRASES ==
  << <<"l", "i", "s", "t">>,
     <<"g", "e", "t", " ", "m", "e", " ", "t", "h", "e", " ", "l", "i", "s", "t">>,
     <<"s", "h", "o", "w", " ", "a", "l", "l">>,
     <<"a", "l", "l", " ", "t", "h", "e">>,
     <<"l", "i", "s", "t", " ", "o", "f">> >>

\* any(x in s for x in seq)
AnyIn(seq, s) == \E i \in 1..Len(seq) : Contains(s, seq[i])

\* operations_by_id = {op["operation_id"]: op for op in operations_list}
\* is kept as the list; a later operation with the same id replaces an earlier
InOperations(operations, name) ==
  \E i \in 1..Len(operations) : operations[i].operation_id = name

\* operations_by_id[name] for a name that is a key
OperationAt(operations, name) ==
  operations[CHOOSE i \in 1..Len(operations) :
               /\ operations[i].operation_id = name
               /\ \A j \in (i + 1)..Len(operations) : operations[j].operation_id # name]

\* op.get(key) for the optional classification columns: the operation dicts
\* built by load_api_source_and_operations carry none of them
OpGet(op, key) ==
  IF key \in DOMAIN op THEN op[key] ELSE PyNone

\* (op.get(key) or "").strip().lower() if op.get(key) else None
StripLowerOrNone(v) == IF Truthy(v) THEN PyStr(Lower(Strip(v.s))) ELSE PyNone

\* the keywords of the table that occur in user_lower, in table order
MatchedKeywords(user_lower) ==
  SelectSeq(EXTERNAL_API_KEYWORD_TO_MATCH, LAMBDA e : Contains(user_lower, e.kw))

\* match_substrings: the subs of every matched keyword
MatchSubstrings(user_lower) ==
  LET m == MatchedKeywords(user_lower)
  IN  Flatten([i \in 1..Len(m) |-> m[i].subs])

\* wanted_resources: the resources of the matched keywords that have one
WantedResources(user_lower) ==
  LET m == MatchedKeywords(user_lower)
  IN  {m[i].resource.s : i \in {j \in 1..Len(m) : Truthy(m[j].resource)}}

\* name = t.get("function", {}).get("name") or ""
ToolName(t) == t.function.name

\* has_path_params = op.get("has_path_params", "{" in (op.get("path_template") or ""))
HasPathParams(op) ==
  IF "has_path_params" \in DOMAIN op THEN Truthy(op.has_path_params)
  ELSE Contains(op.path_template, <<"{">>)

\* any(sub in f"{name} {summary}" for sub in match_substrings): the name as it
\* is written, the summary lower-cased
SubstringMatch(name, op, match_substrings) ==
  AnyIn(match_substrings, name \o <<" ">> \o Lower(op.summary))

\* whether the body of the loop over tools reaches filtered.append(t) for t
KeepTool(t, operations, user_lower) ==
  LET name     == ToolName(t)
      found    == InOperations(operations, name)
      \* op = operations_by_id.get(name) or {}
      op       == IF found THEN OperationAt(operations, name)
                  ELSE [path_template |-> <<>>, summary |-> <<>>]
      resource == StripLowerOrNone(OpGet(op, "resource"))
      action   == StripLowerOrNone(OpGet(op, "action"))
      wanted   == WantedResources(user_lower)
      subs     == MatchSubstrings(user_lower)
      matches  ==
        IF wanted # {}
        THEN IF Truthy(resource) /\ resource.s \in wanted THEN TRUE
             ELSE IF ~Truthy(resource) THEN SubstringMatch(name, op, subs)
             ELSE FALSE
        ELSE SubstringMatch(name, op, subs)
      want_list == AnyIn(LIST_INTENT_PHRASES, user_lower)
      is_list   ==
        \/ action \in {PyStr(<<"l", "i", "s", "t">>),
                       PyStr(<<"l", "i", "s", "t", "_", "s", "c", "o", "p", "e", "d">>)}
        \/ ~HasPathParams(op)
  IN  matches /\ (want_list => is_list)

\* a variant that returns the filtered list also when it is empty
FilterWithoutFallback(tools, user_input, operations) ==
  IF user_input = <<>> \/ operations = <<>> THEN tools
  ELSE LET user_lower == Lower(user_input)
       IN  IF MatchSubstrings(user_lower) = <<>> /\ WantedResources(user_lower) = {}
           THEN tools
           ELSE SelectSeq(tools, LAMBDA t : KeepTool(t, operations, user_lower))

\* _filter_external_tools_by_query(tools, user_input, operations_by_id)
filter_external_tools_by_query(tools, user_input, operations) ==
  IF user_input = <<>> \/ operations = <<>> THEN tools
  ELSE LET user_lower == Lower(user_input)
       IN  IF MatchSubstrings(user_lower) = <<>> /\ WantedResources(user_lower) = {}
           THEN tools
           ELSE LET filtered == SelectSeq(tools, LAMBDA t : KeepTool(t, operations, user_lower))
                IN  IF filtered # <<>> THEN filtered ELSE tools

(***************************************************************************)
(* Request executor (src/external_api.py, execute_external_api)            *)
(***************************************************************************)
\* path_params = path_params or {}; a str is json.loads-ed, {} when that
\* raises json.JSONDecodeError (the same for query_params)
CoerceParams(v) ==
  LET a == PyOr(v, EmptyDict)
  IN  IF IsStr(a)
      THEN LET r == JsonLoads(a.s) IN IF r.ok THEN r.v ELSE EmptyDict
      ELSE a

\* a str request_body is json.loads-ed when it is not blank; None when it is
\* blank or json.loads raises json.JSONDecodeError
CoerceBody(v) ==
  IF ~IsNone(v) /\ IsStr(v)
  THEN IF Strip(v.s) # <<>>
       THEN LET r == JsonLoads(v.s) IN IF r.ok THEN r.v ELSE PyNone
       ELSE PyNone
  ELSE v

\* the timeout of urlopen(req, timeout=30)
RequestTimeout == 30

BodyMethods == {<<"P", "O", "S", "T">>, <<"P", "U", "T">>, <<"P", "A", "T", "C", "H">>}

\* a variant that encodes a body for every method
BodyBytesAnyMethod(body, method) ==
  IF ~IsNone(body) THEN [t |-> "bytes", b |-> Utf8Encode(JsonDumps(body))] ELSE PyNone

\* body_bytes: json.dumps(request_body).encode("utf-8") for POST, PUT and
\* PATCH with a request_body that is not None, else None
BodyBytes(body, method) ==
  IF ~IsNone(body) /\ method \in BodyMethods
  THEN [t |-> "bytes", b |-> Utf8Encode(JsonDumps(body))]
  ELSE PyNone

\* headers: Accept, Authorization when a token is configured, Content-Type
\* when a body is sent
RequestHeaders(bearer_token, body_bytes) ==
  << <<"Accept", <<"application/json">> >> >>
    \o (IF bearer_token # "" THEN << <<"Authorization", <<"Bearer ", bearer_token>> >> >> ELSE <<>>)
    \o (IF ~IsNone(body_bytes) THEN << <<"Content-Type", <<"application/json">> >> >> ELSE <<>>)

\* a variant of the lookup that takes an unknown id for the first operation
LookupFirstWhenUnknown(operations, id) ==
  IF InOperations(operations, id) THEN OperationAt(operations, id) ELSE operations[1]

\* op = operations_by_id.get(operation_id): None for an id that is no key
OperationsGet(operations, id) ==
  IF InOperations(operations, id) THEN OperationAt(operations, id) ELSE PyNone

\* a variant that always formats the status line
HttpErrorResultStatusOnly(code, reason, body) ==
  PyStr(<<"H", "T", "T", "P", " ">> \o IntToStr(code) \o <<":", " ">> \o reason)

\* e.read().decode("utf-8", errors="replace") or f"HTTP {e.code}: {e.reason}"
HttpErrorResult(code, reason, body) ==
  PyOr(PyStr(Utf8Decode(body)),
       PyStr(<<"H", "T", "T", "P", " ">> \o IntToStr(code) \o <<":", " ">> \o reason))

(***************************************************************************)
(* State                                                                   *)
(***************************************************************************)
VARIABLES
  \* the keyword strategy, src/app.py run() lines 354-358
  user_input,     \* the utterance of the turn (a str)
  op_ids,         \* operations_by_id of the loaded catalog, in catalog order
  external_only,  \* the tools handed to the keyword strategy
  use_tools,      \* the tool set the keyword strategy returned
  filter_pc,      \* "resolving" before the keyword strategy ran, "offered" after
  \* the route of a tool call, src/app.py lines 308-314
  route_op,       \* the operation the tool call names
  route_args,     \* the flat arguments of the tool call
  routed,         \* what args_to_request_parts returned
  route_path,     \* what _fill_path_template returned for the routed path_params
  route_pc,       \* "called", "routed", "filled"
  \* one call of execute_external_api, src/external_api.py lines 296-342
  operation_id,   \* the operation_id argument
  supplied,       \* path_params, query_params, request_body as passed
  path_params,    \* the local path_params (rebound by the coercions)
  query_params,   \* the local query_params
  request_body,   \* the local request_body
  req,            \* the Request handed to urlopen, or NoRequest
  resp,           \* what urlopen did: a response, an HTTPError, a URLError, a timeout
  result,         \* the str the call returned
  exc,            \* the exception that left the call
  exec_pc,        \* "called", "sent" (urlopen in progress), "returned", "raised"
  \* one call of a delegated-reasoning resolver, src/external_api.py lines 77-184
  openai_installed, \* whether "from openai import OpenAI" succeeds
  ollama_installed, \* whether "import ollama" succeeds
  api_key,        \* the api_key argument of resolve_operation_with_openai
  resolve_ops,    \* the operations_list argument
  resolver,       \* the resolver that was called: "openai", "ollama"
  reply,          \* what the reasoning service did: a content, a failure
  resolved,       \* what the resolver returned: None or a ResolvedCall
  resolve_pc,     \* "called", "returned"
  \* one call of build_dynamic_tools_from_operations, src/external_api.py lines 226-250
  tool_ops,       \* the operations_list argument
  dynamic_tools,  \* the list of tools returned
  tools_pc,       \* "called", "built"
  \* the catalog load of a session, src/app.py lines 204-264, next to the
  \* writer job, src/scripts/sync_swagger_to_db.py lines 132-193
  environ,        \* os.environ of the session
  psycopg2_installed, \* whether "import psycopg2" succeeded in external_api
  isolation,      \* the isolation level the server gives the session's transaction
  api_sources,    \* the committed rows of table api_sources
  api_operations, \* the committed rows of table api_operations
  committed,      \* every version of the source that was ever committed
  sync_doc,       \* what the running writer job writes: base_url and operations
  sync_txn,       \* the tables as the writer's open transaction sees them
  sync_todo,      \* the operations the writer has still to insert
  sync_runs,      \* the number of writer jobs started
  sync_pc,        \* "idle", "connected", "upserted", "inserting"
  load_args,      \* database_url, source_name, source_id and bearer_token of the load
  load_snapshot,  \* the tables as the session's transaction sees them
  load_row,       \* the row of api_sources the first query returned
  loaded,         \* what load_api_source_and_operations returned
  external_api_data, \* handler_data of the session, None when absent
  session_tools,  \* the names of the tools run() offers: tools
  handled,        \* the tool calls the session handled, each external or local
  load_pc,        \* "start", "connecting", "connected", "source_read",
                  \* "session" (run() goes on), "raised" (an exception left run())
  \* the dispatch loop of a session, src/app.py lines 290-373
  conversation_messages, \* the history carried from turn to turn
  messages,       \* the history of the turn: the system message, then the rest
  response,       \* the response of the reasoning service that is being handled
  tool_i,         \* the index of the next tool call of response to execute
  chat_log,       \* the calls of the reasoning service: Len(messages) and the tools sent
  executed,       \* the tool calls executed so far, with the index of their result
  turns,          \* the number of utterances read
  loop_pc         \* "input", "thinking", "handling", "tools", "answering",
                  \* "exited" (exit or quit), "exit1" (sys.exit(1)), "raised"

\* user_input and use_tools are locals of a turn of run() as well
turnVars == <<user_input, use_tools>>

filterOnlyVars == <<op_ids, external_only, filter_pc>>

filterVars == <<turnVars, filterOnlyVars>>

routeVars == <<route_op, route_args, routed, route_path, route_pc>>

execVars ==
  <<operation_id, supplied, path_params, query_params, request_body,
    req, resp, result, exc, exec_pc>>

resolveVars ==
  <<openai_installed, ollama_installed, api_key, resolve_ops,
    resolver, reply, resolved, resolve_pc>>

toolVars == <<tool_ops, dynamic_tools, tools_pc>>

\* the variables of the parts of the program that follow the executor
syncVars ==
  <<api_sources, api_operations, committed, sync_doc, sync_txn, sync_todo,
    sync_runs, sync_pc>>

loadOnlyVars ==
  <<environ, psycopg2_installed, isolation, load_args, load_snapshot, load_row,
    loaded, handled, load_pc>>

\* what the load leaves to the session
sessionVars == <<external_api_data, session_tools>>

loadVars == <<loadOnlyVars, sessionVars>>

loopVars ==
  <<conversation_messages, messages, response, tool_i, chat_log, executed,
    turns, loop_pc>>

laterVars == <<resolveVars, toolVars, syncVars, loadVars, loopVars>>

\* the variables a part of the program leaves alone
besideResolveVars ==
  <<filterVars, routeVars, execVars, toolVars, syncVars, loadVars, loopVars>>

besideToolVars ==
  <<filterVars, routeVars, execVars, resolveVars, syncVars, loadVars, loopVars>>

besideLoadVars == <<filterVars, routeVars, execVars, resolveVars, toolVars, loopVars>>

besideLoopVars ==
  <<filterOnlyVars, routeVars, execVars, resolveVars, toolVars, syncVars, loadOnlyVars>>

vars == <<filterVars, routeVars, execVars, laterVars>>

\* a variable that holds nothing yet
NotYet == [t |-> "notyet"]

NoTools == <<>>

NoRequest == [t |-> "norequest"]

\* the variables of a part of the program that a specification leaves out
FilterIdle ==
  /\ user_input = <<>>
  /\ op_ids = <<>>
  /\ external_only = NoTools
  /\ use_tools = NoTools
  /\ filter_pc = "idle"

RouteIdle ==
  /\ route_op = NotYet
  /\ route_args = PyNone
  /\ routed = NotYet
  /\ route_path = NotYet
  /\ route_pc = "idle"

ExecIdle ==
  /\ operation_id = <<>>
  /\ supplied = NotYet
  /\ path_params = PyNone
  /\ query_params = PyNone
  /\ request_body = PyNone
  /\ req = NoRequest
  /\ resp = NotYet
  /\ result = NotYet
  /\ exc = "none"
  /\ exec_pc = "idle"

ResolveIdle ==
  /\ openai_installed = FALSE
  /\ ollama_installed = FALSE
  /\ api_key = PyNone
  /\ resolve_ops = <<>>
  /\ resolver = "none"
  /\ reply = NotYet
  /\ resolved = NotYet
  /\ resolve_pc = "idle"

ToolsIdle ==
  /\ tool_ops = <<>>
  /\ dynamic_tools = NotYet
  /\ tools_pc = "idle"

NoTables == [sources |-> {}, operations |-> {}]

SyncIdle ==
  /\ api_sources = {}
  /\ api_operations = {}
  /\ committed = {}
  /\ sync_doc = NotYet
  /\ sync_txn = NoTables
  /\ sync_todo = <<>>
  /\ sync_runs = 0
  /\ sync_pc = "idle"

LoadOnlyIdle ==
  /\ environ = <<>>
  /\ psycopg2_installed = FALSE
  /\ isolation = "none"
  /\ load_args = NotYet
  /\ load_snapshot = NoTables
  /\ load_row = NotYet
  /\ loaded = NotYet
  /\ handled = NotYet
  /\ load_pc = "idle"

LoadIdle ==
  /\ SyncIdle
  /\ LoadOnlyIdle
  /\ external_api_data = NotYet
  /\ session_tools = <<>>

LoopIdle ==
  /\ conversation_messages = <<>>
  /\ messages = <<>>
  /\ response = NotYet
  /\ tool_i = 0
  /\ chat_log = <<>>
  /\ executed = <<>>
  /\ turns = 0
  /\ loop_pc = "idle"

LaterIdle == ResolveIdle /\ ToolsIdle /\ LoadIdle /\ LoopIdle

BesideResolveIdle ==
  FilterIdle /\ RouteIdle /\ ExecIdle /\ ToolsIdle /\ LoadIdle /\ LoopIdle

BesideToolsIdle ==
  FilterIdle /\ RouteIdle /\ ExecIdle /\ ResolveIdle /\ LoadIdle /\ LoopIdle

BesideLoadIdle ==
  FilterIdle /\ RouteIdle /\ ExecIdle /\ ResolveIdle /\ ToolsIdle /\ LoopIdle

FilterOnlyIdle ==
  /\ op_ids = <<>>
  /\ external_only = NoTools
  /\ filter_pc = "idle"

BesideLoopIdle ==
  /\ FilterOnlyIdle /\ RouteIdle /\ ExecIdle /\ ResolveIdle /\ ToolsIdle
  /\ SyncIdle /\ LoadOnlyIdle

(***************************************************************************)
(* The catalog as load_api_source_and_operations returns it                *)
(***************************************************************************)
\* one row of api_operations made into an operation dict; a NULL summary
\* becomes ""
RowToOperation(r) ==
  [operation_id      |-> r[1],
   method            |-> r[2],
   path_template     |-> r[3],
   summary           |-> PyOr(r[4], PyStr(<<>>)).s,
   tag               |-> r[5],
   parameters_schema |-> r[6]]

\* a parameter as scripts/sync_swagger_to_db.py stores it in parameters_schema
Param(name, in, required, type) ==
  [name     |-> PyStr(name),
   in       |-> PyStr(in),
   required |-> PyBool(required),
   schema   |-> PyDict(<< <<<<"t", "y", "p", "e">>, PyStr(type)>> >>)]

\* the elements of seq whose index is in S, in order
RECURSIVE Pick(_, _, _)
Pick(seq, S, i) ==
  IF i > Len(seq) THEN <<>>
  ELSE (IF i \in S THEN <<seq[i]>> ELSE <<>>) \o Pick(seq, S, i + 1)

\* the loop of _tool_parameters_from_operation over params_list[i..]:
\* <<properties, required>>
RECURSIVE ToolProperties(_, _, _, _)
ToolProperties(params_list, i, properties, required) ==
  IF i > Len(params_list) THEN <<properties, required>>
  ELSE IF ParamLoc(params_list[i]) \notin {<<"p", "a", "t", "h">>, <<"q", "u", "e", "r", "y">>}
  THEN ToolProperties(params_list, i + 1, properties, required)
  ELSE ToolProperties(
         params_list, i + 1,
         DictSet(properties, params_list[i].name.s,
                 PyDict(<< <<<<"t", "y", "p", "e">>,
                             PyOr(DictGet(PyOr(params_list[i].schema, EmptyDict).kv, <<"t", "y", "p", "e">>),
                                  PyStr(<<"s", "t", "r", "i", "n", "g">>))>>,
                           <<<<"d", "e", "s", "c", "r", "i", "p", "t", "i", "o", "n">>,
                             PyStr(ParamLoc(params_list[i]) \o <<" ", "p", "a", "r", "a", "m", "e", "t", "e", "r">>)>> >>)),
         IF Truthy(params_list[i].required)
         THEN Append(required, PyStr(params_list[i].name.s))
         ELSE required)

\* a variant that offers request_body for every method
WithRequestBodyAlways(properties, method) ==
  DictSet(properties, <<"r", "e", "q", "u", "e", "s", "t", "_", "b", "o", "d", "y">>,
          PyDict(<< <<<<"t", "y", "p", "e">>, PyStr(<<"o", "b", "j", "e", "c", "t">>)>>,
                    <<<<"d", "e", "s", "c", "r", "i", "p", "t", "i", "o", "n">>, PyStr(<<"J", "S", "O", "N", " ", "b", "o", "d", "y", " ", "f", "o", "r", " ", "t", "h", "e", " ", "r", "e", "q", "u", "e", "s", "t", " ", "(", "o", "p", "t", "i", "o", "n", "a", "l", ")">>)>> >>))

\* properties["request_body"] = {...} for POST, PUT and PATCH
WithRequestBody(properties, method) ==
  IF Upper(method) \in {<<"P", "O", "S", "T">>, <<"P", "U", "T">>, <<"P", "A", "T", "C", "H">>}
  THEN DictSet(properties, <<"r", "e", "q", "u", "e", "s", "t", "_", "b", "o", "d", "y">>,
               PyDict(<< <<<<"t", "y", "p", "e">>, PyStr(<<"o", "b", "j", "e", "c", "t">>)>>,
                         <<<<"d", "e", "s", "c", "r", "i", "p", "t", "i", "o", "n">>, PyStr(<<"J", "S", "O", "N", " ", "b", "o", "d", "y", " ", "f", "o", "r", " ", "t", "h", "e", " ", "r", "e", "q", "u", "e", "s", "t", " ", "(", "o", "p", "t", "i", "o", "n", "a", "l", ")">>)>> >>))
  ELSE properties

\* _tool_parameters_from_operation(op)
tool_parameters_from_operation(op) ==
  PyDict(<< <<<<"t", "y", "p", "e">>, PyStr(<<"o", "b", "j", "e", "c", "t">>)>>,
            <<<<"p", "r", "o", "p", "e", "r", "t", "i", "e", "s">>,
              PyDict(WithRequestBody(
                       ToolProperties(operation_params_schema_list(op), 1, <<>>, <<>>)[1],
                       op.method))>>,
            <<<<"r", "e", "q", "u", "i", "r", "e", "d">>,
              PyList(ToolProperties(operation_params_schema_list(op), 1, <<>>, <<>>)[2])>> >>)

\* the longest description of a tool
DescriptionLimit == 300

\* description = f"{summary} - {method} {path}" with the summary defaulted,
\* cut to DescriptionLimit characters with a trailing "..."
ToolDescription(op) ==
  LET d == (IF Strip(op.summary) # <<>> THEN Strip(op.summary) ELSE <<"E", "x", "t", "e", "r", "n", "a", "l", " ", "A", "P", "I", " ", "c", "a", "l", "l">>)
             \o <<" ", "EMDASH", " ">> \o Upper(op.method) \o <<" ">> \o Strip(op.path_template)
  IN  IF Len(d) > DescriptionLimit
      THEN SubSeq(d, 1, DescriptionLimit - 3) \o <<".", ".", ".">>
      ELSE d

\* build_dynamic_tools_from_operations(operations_list): one tool per
\* operation that has an operation_id, in the order of the list
build_dynamic_tools_from_operations(operations_list) ==
  LET kept == SelectSeq(operations_list, LAMBDA op : op.operation_id # <<>>)
  IN  [i \in 1..Len(kept) |->
         [type |-> "function",
          function |-> [name        |-> kept[i].operation_id,
                        description |-> ToolDescription(kept[i]),
                        parameters  |-> tool_parameters_from_operation(kept[i])]]]

(***************************************************************************)
(* Keyword strategy: inputs and the step that applies it                   *)
(***************************************************************************)
\* the largest number of operations in a catalog of the model
MaxCatalog == 3

\* rows of api_operations, ORDER BY tag, operation_id; each with the summary
\* the API document gives it
CatalogRows ==
  << <<<<"A", "i", "r", "p", "o", "r", "t", "s", "_", "G", "e", "t", "P", "a", "s", "s", "e", "n", "g", "e", "r", "s">>, <<"G", "E", "T">>, <<"/", "a", "i", "r", "p", "o", "r", "t", "s", "/", "{", "a", "i", "r", "p", "o", "r", "t", "I", "d", "}", "/", "p", "a", "s", "s", "e", "n", "g", "e", "r", "s">>,
       PyStr(<<"P", "a", "s", "s", "e", "n", "g", "e", "r", "s", " ", "a", "t", " ", "a", "n", " ", "a", "i", "r", "p", "o", "r", "t">>), PyStr(<<"A", "i", "r", "p", "o", "r", "t", "s">>),
       PyList(<<Param(<<"a", "i", "r", "p", "o", "r", "t", "I", "d">>, <<"p", "a", "t", "h">>, TRUE, <<"s", "t", "r", "i", "n", "g">>)>>)>>,
     <<<<"H", "o", "t", "e", "l", "s", "_", "G", "e", "t">>, <<"G", "E", "T">>, <<"/", "h", "o", "t", "e", "l", "s", "/", "{", "i", "d", "}">>,
       PyStr(<<"G", "e", "t", " ", "o", "n", "e", " ", "h", "o", "t", "e", "l">>), PyStr(<<"H", "o", "t", "e", "l", "s">>),
       PyList(<<Param(<<"i", "d">>, <<"p", "a", "t", "h">>, TRUE, <<"s", "t", "r", "i", "n", "g">>)>>)>>,
     <<<<"S", "e", "t", "t", "i", "n", "g", "s", "_", "G", "e", "t", "A", "i", "r", "p", "o", "r", "t", "s">>, <<"G", "E", "T">>, <<"/", "a", "i", "r", "p", "o", "r", "t", "s">>,
       PyStr(<<"A", "l", "l", " ", "a", "i", "r", "p", "o", "r", "t", "s">>), PyStr(<<"S", "e", "t", "t", "i", "n", "g", "s">>), PyNone>>,
     <<<<"S", "e", "t", "t", "i", "n", "g", "s", "_", "G", "e", "t", "H", "o", "t", "e", "l", "s">>, <<"G", "E", "T">>, <<"/", "h", "o", "t", "e", "l", "s">>,
       PyStr(<<"G", "e", "t", " ", "h", "o", "t", "e", "l", "s">>), PyStr(<<"S", "e", "t", "t", "i", "n", "g", "s">>), PyNone>>,
     <<<<"S", "e", "t", "t", "i", "n", "g", "s", "_", "G", "e", "t", "P", "r", "o", "d", "u", "c", "t", "s">>, <<"G", "E", "T">>, <<"/", "p", "r", "o", "d", "u", "c", "t", "s">>,
       PyStr(<<"G", "e", "t", " ", "p", "r", "o", "d", "u", "c", "t", "s">>), PyStr(<<"S", "e", "t", "t", "i", "n", "g", "s">>), PyNone>> >>

\* the same row with a NULL summary (an operation the API document gives no
\* summary or description)
WithoutSummary(r) == [r EXCEPT ![4] = PyNone]

\* the catalogs of the model: up to MaxCatalog rows, all with or all without
\* their summaries
Catalogs ==
  {[i \in 1..Len(rows) |-> RowToOperation(IF summaries THEN rows[i] ELSE WithoutSummary(rows[i]))] :
     <<rows, summaries>> \in
       {Pick(CatalogRows, S, 1) :
          S \in {T \in SUBSET (1..Len(CatalogRows)) :
                   Cardinality(T) >= 1 /\ Cardinality(T) <= MaxCatalog}}
       \X BOOLEAN}

Utterances ==
  {<<"l", "i", "s", "t", " ", "o", "f", " ", "a", "i", "r", "p", "o", "r", "t", "s">>, <<"L", "i", "s", "t", " ", "o", "f", " ", "A", "i", "r", "p", "o", "r", "t", "s">>, <<"s", "h", "o", "w", " ", "a", "l", "l", " ", "h", "o", "t", "e", "l", "s">>,
   <<"p", "a", "s", "s", "e", "n", "g", "e", "r", "s", " ", "a", "t", " ", "a", "i", "r", "p", "o", "r", "t", " ", "A", "1">>, <<"h", "o", "t", "e", "l", " ", "7">>, <<"h", "e", "l", "l", "o">>, <<"l", "i", "s", "t">>, <<>>}

FilterInit ==
  /\ user_input \in Utterances
  /\ op_ids \in Catalogs
  /\ external_only = build_dynamic_tools_from_operations(op_ids)
  /\ use_tools = NoTools
  /\ filter_pc = "resolving"

\* use_tools = _filter_external_tools_by_query(external_only, user_input, op_ids)
FilterTools ==
  /\ filter_pc = "resolving"
  /\ use_tools' = filter_external_tools_by_query(external_only, user_input, op_ids)
  /\ filter_pc' = "offered"
  /\ UNCHANGED <<user_input, op_ids, external_only>>
  /\ UNCHANGED <<routeVars, execVars, laterVars>>

NextFilter == FilterTools

(***************************************************************************)
(* Argument router and path filling: inputs and steps                      *)
(* (the route computation of a tool call, src/app.py lines 308-314)        *)
(***************************************************************************)
\* the largest number of entries in the flat arguments of a tool call
MaxArgs == 2

\* operations whose parameters_schema mixes path, query (also by default, and
\* in another case), header and nameless parameters
RouteOperations ==
  { RowToOperation(<<<<"H", "o", "t", "e", "l", "s", "_", "G", "e", "t", "R", "o", "o", "m">>, <<"G", "E", "T">>, <<"/", "h", "o", "t", "e", "l", "s", "/", "{", "h", "o", "t", "e", "l", "I", "d", "}", "/", "r", "o", "o", "m", "s", "/", "{", "r", "o", "o", "m", "I", "d", "}">>,
                     PyStr(<<"G", "e", "t", " ", "a", " ", "r", "o", "o", "m">>), PyStr(<<"H", "o", "t", "e", "l", "s">>),
                     PyList(<<Param(<<"h", "o", "t", "e", "l", "I", "d">>, <<"p", "a", "t", "h">>, TRUE, <<"s", "t", "r", "i", "n", "g">>),
                              Param(<<"r", "o", "o", "m", "I", "d">>, <<"p", "a", "t", "h">>, TRUE, <<"s", "t", "r", "i", "n", "g">>),
                              Param(<<"l", "i", "m", "i", "t">>, <<"q", "u", "e", "r", "y">>, FALSE, <<"i", "n", "t", "e", "g", "e", "r">>),
                              Param(<<"b", "o", "d", "y">>, <<"h", "e", "a", "d", "e", "r">>, FALSE, <<"s", "t", "r", "i", "n", "g">>)>>)>>),
    RowToOperation(<<<<"S", "e", "t", "t", "i", "n", "g", "s", "_", "G", "e", "t", "A", "i", "r", "p", "o", "r", "t", "s">>, <<"G", "E", "T">>, <<"/", "a", "i", "r", "p", "o", "r", "t", "s">>,
                     PyNone, PyStr(<<"S", "e", "t", "t", "i", "n", "g", "s">>),
                     PyList(<<[name |-> PyStr(<<"l", "i", "m", "i", "t">>), in |-> PyNone,
                               required |-> PyBool(FALSE), schema |-> PyNone],
                              Param(<<"r", "o", "o", "m", "I", "d">>, <<"Q", "U", "E", "R", "Y">>, FALSE, <<"s", "t", "r", "i", "n", "g">>),
                              [name |-> PyNone, in |-> PyStr(<<"p", "a", "t", "h">>),
                               required |-> PyBool(FALSE), schema |-> PyNone]>>)>>),
    RowToOperation(<<<<"H", "o", "t", "e", "l", "s", "_", "G", "e", "t">>, <<"G", "E", "T">>, <<"/", "h", "o", "t", "e", "l", "s", "/", "{", "h", "o", "t", "e", "l", "I", "d", "}">>,
                     PyNone, PyStr(<<"H", "o", "t", "e", "l", "s">>),
                     PyList(<<Param(<<"h", "o", "t", "e", "l", "I", "d">>, <<"P", "a", "t", "h">>, TRUE, <<"s", "t", "r", "i", "n", "g">>),
                              Param(<<"h", "o", "t", "e", "l", "I", "d">>, <<"q", "u", "e", "r", "y">>, FALSE, <<"s", "t", "r", "i", "n", "g">>)>>)>>),
    RowToOperation(<<<<"H", "o", "t", "e", "l", "s", "_", "C", "r", "e", "a", "t", "e">>, <<"P", "O", "S", "T">>, <<"/", "h", "o", "t", "e", "l", "s">>,
                     PyNone, PyStr(<<"H", "o", "t", "e", "l", "s">>), PyNone>>) }

ArgKeys == {<<"h", "o", "t", "e", "l", "I", "d">>, <<"r", "o", "o", "m", "I", "d">>, <<"l", "i", "m", "i", "t">>, <<"b", "o", "d", "y">>}

ArgValues == {PyStr(<<"7">>), PyStr(<<"{", "r", "o", "o", "m", "I", "d", "}">>), PyNone}

\* the sequences of n entries with distinct keys
RECURSIVE EntrySeqs(_)
EntrySeqs(n) ==
  IF n = 0 THEN {<<>>}
  ELSE {Append(kv, <<k, v>>) :
          <<kv, k, v>> \in
            {x \in EntrySeqs(n - 1) \X ArgKeys \X ArgValues : ~HasKey(x[1], x[2])}}

\* the argument payloads of the model: dicts of up to MaxArgs entries, and
\* payloads that are no dict
FlatArgs ==
  {PyDict(kv) : kv \in UNION {EntrySeqs(n) : n \in 0..MaxArgs}}
    \cup {PyNone, PyList(<<PyInt(1)>>)}

RouteInit ==
  /\ route_op \in RouteOperations
  /\ route_args \in FlatArgs
  /\ routed = NotYet
  /\ route_path = NotYet
  /\ route_pc = "called"

\* path_params, query_params, _ = args_to_request_parts(op, args)
RouteArgs ==
  /\ route_pc = "called"
  /\ routed' = args_to_request_parts(route_op, route_args)
  /\ route_pc' = "routed"
  /\ UNCHANGED <<route_op, route_args, route_path>>
  /\ UNCHANGED <<filterVars, execVars, laterVars>>

\* path = _fill_path_template(path_tpl, path_params)
FillPath ==
  /\ route_pc = "routed"
  /\ route_path' = fill_path_template(route_op.path_template, routed.path_params)
  /\ route_pc' = "filled"
  /\ UNCHANGED <<route_op, route_args, routed>>
  /\ UNCHANGED <<filterVars, execVars, laterVars>>

NextRoute == RouteArgs \/ FillPath

(***************************************************************************)
(* Request executor: inputs and steps                                      *)
(* (one call of execute_external_api, src/external_api.py lines 296-342)   *)
(***************************************************************************)
\* the longest response body drawn from BodyAlphabet
MaxBody == 1

\* api_source["base_url"] and api_source["bearer_token"] of the loaded source
BaseUrl == <<"h", "t", "t", "p", ":", "/", "/", "a", "p", "i", ".", "t", "e", "s", "t">>

BearerToken == "secret-token"

\* operations_by_id of the loaded catalog: one operation per HTTP method, one
\* of them stored in lower case
ExecOperations ==
  << RowToOperation(<<<<"A", "i", "r", "p", "o", "r", "t", "s", "_", "G", "e", "t", "P", "a", "s", "s", "e", "n", "g", "e", "r", "s">>, <<"G", "E", "T">>, <<"/", "a", "i", "r", "p", "o", "r", "t", "s", "/", "{", "a", "i", "r", "p", "o", "r", "t", "I", "d", "}", "/", "p", "a", "s", "s", "e", "n", "g", "e", "r", "s">>,
                      PyNone, PyStr(<<"A", "i", "r", "p", "o", "r", "t", "s">>),
                      PyList(<<Param(<<"a", "i", "r", "p", "o", "r", "t", "I", "d">>, <<"p", "a", "t", "h">>, TRUE, <<"s", "t", "r", "i", "n", "g">>)>>)>>),
     RowToOperation(<<<<"H", "o", "t", "e", "l", "s", "_", "C", "r", "e", "a", "t", "e">>, <<"p", "o", "s", "t">>, <<"/", "h", "o", "t", "e", "l", "s">>,
                      PyStr(<<"C", "r", "e", "a", "t", "e", " ", "a", " ", "h", "o", "t", "e", "l">>), PyStr(<<"H", "o", "t", "e", "l", "s">>), PyNone>>),
     RowToOperation(<<<<"H", "o", "t", "e", "l", "s", "_", "U", "p", "d", "a", "t", "e">>, <<"P", "U", "T">>, <<"/", "h", "o", "t", "e", "l", "s", "/", "{", "i", "d", "}">>,
                      PyNone, PyStr(<<"H", "o", "t", "e", "l", "s">>),
                      PyList(<<Param(<<"i", "d">>, <<"p", "a", "t", "h">>, TRUE, <<"s", "t", "r", "i", "n", "g">>)>>)>>),
     RowToOperation(<<<<"H", "o", "t", "e", "l", "s", "_", "P", "a", "t", "c", "h">>, <<"P", "A", "T", "C", "H">>, <<"/", "h", "o", "t", "e", "l", "s", "/", "{", "i", "d", "}">>,
                      PyNone, PyStr(<<"H", "o", "t", "e", "l", "s">>),
                      PyList(<<Param(<<"i", "d">>, <<"p", "a", "t", "h">>, TRUE, <<"s", "t", "r", "i", "n", "g">>)>>)>>),
     RowToOperation(<<<<"H", "o", "t", "e", "l", "s", "_", "D", "e", "l", "e", "t", "e">>, <<"D", "E", "L", "E", "T", "E">>, <<"/", "h", "o", "t", "e", "l", "s", "/", "{", "i", "d", "}">>,
                      PyNone, PyStr(<<"H", "o", "t", "e", "l", "s">>),
                      PyList(<<Param(<<"i", "d">>, <<"p", "a", "t", "h">>, TRUE, <<"s", "t", "r", "i", "n", "g">>)>>)>>) >>

\* the operation_id argument: the ids of the catalog, an id of no operation,
\* and the "" that _external_api_execute passes for a missing id
OperationIds ==
  {ExecOperations[i].operation_id : i \in 1..Len(ExecOperations)}
    \cup {<<"H", "o", "t", "e", "l", "s", "_", "D", "e", "s", "t", "r", "o", "y">>, <<>>}

\* the path_params argument: None, a mapping, and strings that are a JSON
\* object, not JSON, a JSON array, and empty
PathParamsInputs ==
  { PyNone,
    PyDict(<< <<<<"i", "d">>, PyStr(<<"7">>)>>, <<<<"a", "i", "r", "p", "o", "r", "t", "I", "d">>, PyStr(<<"L", "H", "R">>)>> >>),
    PyStr(<<"{", "\"", "i", "d", "\"", ":", " ", "7", "}">>),
    PyStr(<<"{", "\"", "i", "d", "\"", ":", " ", "7">>),
    PyStr(<<"[", "1", "]">>),
    PyStr(<<>>) }

\* the query_params argument: None, a mapping with an empty value, and
\* strings that are a JSON object with a null, not JSON, and a JSON array
QueryParamsInputs ==
  { PyNone,
    PyDict(<< <<<<"l", "i", "m", "i", "t">>, PyStr(<<>>)>>, <<<<"p", "a", "g", "e">>, PyStr(<<"2">>)>> >>),
    PyDict(<< <<<<"l", "i", "m", "i", "t">>, PyStr(<<>>)>>, <<<<"p", "a", "g", "e">>, PyNone>> >>),
    PyStr(<<"{", "\"", "q", "\"", ":", " ", "\"", "a", " ", "b", "\"", ",", " ", "\"", "n", "\"", ":", " ", "n", "u", "l", "l", ",", " ", "\"", "k", "\"", ":", " ", "0", "}">>),
    PyStr(<<"p", "a", "g", "e", "=", "2">>),
    PyStr(<<"[", "1", "]">>) }

\* the request_body argument: None, a mapping, a falsy value that is not None,
\* and strings that are a JSON object, blank, not JSON, and the JSON null
RequestBodyInputs ==
  { PyNone,
    PyDict(<< <<<<"n", "a", "m", "e">>, PyStr(<<"R", "i", "t", "z">>)>> >>),
    PyInt(0),
    PyStr(<<"{", "\"", "n", "a", "m", "e", "\"", ":", " ", "\"", "R", "i", "t", "z", "\"", "}">>),
    PyStr(<<" ">>),
    PyStr(<<"{", "\"", "n", "a", "m", "e", "\"">>),
    PyStr(<<"n", "u", "l", "l">>) }

\* the bytes of response bodies: "{" and a byte that is no UTF-8
BodyAlphabet == {123, 255}

RECURSIVE BytesUpTo(_)
BytesUpTo(n) ==
  IF n = 0 THEN {<<>>}
  ELSE BytesUpTo(n - 1)
         \cup {Append(b, c) : <<b, c>> \in {x \in BytesUpTo(n - 1) : Len(x) = n - 1} \X BodyAlphabet}

ResponseBodies == BytesUpTo(MaxBody)

\* the bodies sent with an error status: also a JSON error document
ErrorBodies == ResponseBodies \cup {Utf8Encode(<<"{", "\"", "e", "r", "r", "o", "r", "\"", ":", "\"", "n", "o", "t", " ", "f", "o", "u", "n", "d", "\"", "}">>)}

\* (code, reason) of the HTTPError that urlopen raises
ErrorStatuses == {<<404, <<"N", "o", "t", " ", "F", "o", "u", "n", "d">>>>, <<500, <<"I", "n", "t", "e", "r", "n", "a", "l", " ", "S", "e", "r", "v", "e", "r", " ", "E", "r", "r", "o", "r">>>>}

\* str(e.reason) of the URLError that urlopen raises: DNS failure, connection
\* refused, a timeout while connecting
UrlErrorReasons ==
  {<<"[", "E", "r", "r", "n", "o", " ", "-", "2", "]", " ", "N", "a", "m", "e", " ", "o", "r", " ", "s", "e", "r", "v", "i", "c", "e", " ", "n", "o", "t", " ", "k", "n", "o", "w", "n">>,
   <<"[", "E", "r", "r", "n", "o", " ", "1", "1", "1", "]", " ", "C", "o", "n", "n", "e", "c", "t", "i", "o", "n", " ", "r", "e", "f", "u", "s", "e", "d">>,
   <<"t", "i", "m", "e", "d", " ", "o", "u", "t">>}

ExecInit ==
  /\ operation_id \in OperationIds
  /\ supplied \in [path_params : PathParamsInputs,
                   query_params : QueryParamsInputs,
                   request_body : RequestBodyInputs]
  /\ path_params = supplied.path_params
  /\ query_params = supplied.query_params
  /\ request_body = supplied.request_body
  /\ req = NoRequest
  /\ resp = NotYet
  /\ result = NotYet
  /\ exc = "none"
  /\ exec_pc = "called"

\* lines 300-334: the lookup, the coercions, the URL, the headers, the Request;
\* the call returns for an unknown id, raises when _build_url raises, and
\* otherwise hands the Request to urlopen
ExecuteExternalApi ==
  /\ exec_pc = "called"
  /\ \E found \in {OperationsGet(ExecOperations, operation_id)} :
       IF found = PyNone
       THEN /\ result' = PyStr(<<"U", "n", "k", "n", "o", "w", "n", " ", "o", "p", "e", "r", "a", "t", "i", "o", "n", "_", "i", "d", ":", " ">> \o operation_id)
            /\ exec_pc' = "returned"
            /\ UNCHANGED <<path_params, query_params, request_body, req, exc>>
       ELSE \E cpp    \in {CoerceParams(path_params)},
               cqp    \in {CoerceParams(query_params)},
               crb    \in {CoerceBody(request_body)},
               method \in {Upper(found.method)} :
            \E url  \in {build_url(BaseUrl, found.path_template, cpp, cqp)},
               data \in {BodyBytes(crb, method)} :
              /\ path_params' = cpp
              /\ query_params' = cqp
              /\ request_body' = crb
              /\ IF url.raised
                 THEN /\ exc' = url.exc
                      /\ exec_pc' = "raised"
                      /\ UNCHANGED req
                 ELSE /\ req' = [t |-> "request", url |-> url.v, data |-> data,
                                 headers |-> RequestHeaders(BearerToken, data),
                                 method |-> method, timeout |-> RequestTimeout]
                      /\ exec_pc' = "sent"
                      /\ UNCHANGED exc
              /\ UNCHANGED result
  /\ UNCHANGED <<operation_id, supplied, resp>>
  /\ UNCHANGED <<filterVars, routeVars, laterVars>>

\* lines 337-338: urlopen returns a response, the body is read and decoded
UrlopenResponse ==
  /\ exec_pc = "sent"
  /\ \E body \in ResponseBodies :
       /\ resp' = [kind |-> "response", body |-> body]
       /\ result' = PyStr(Utf8Decode(body))
  /\ exec_pc' = "returned"
  /\ UNCHANGED <<operation_id, supplied, path_params, query_params, request_body, req, exc>>
  /\ UNCHANGED <<filterVars, routeVars, laterVars>>

\* lines 339-340: urlopen raises HTTPError for an error status
UrlopenHTTPError ==
  /\ exec_pc = "sent"
  /\ \E st \in ErrorStatuses, body \in ErrorBodies :
       /\ resp' = [kind |-> "http_error", code |-> st[1], reason |-> st[2], body |-> body]
       /\ result' = HttpErrorResult(st[1], st[2], body)
  /\ exec_pc' = "returned"
  /\ UNCHANGED <<operation_id, supplied, path_params, query_params, request_body, req, exc>>
  /\ UNCHANGED <<filterVars, routeVars, laterVars>>

\* lines 341-342: urlopen raises URLError
UrlopenURLError ==
  /\ exec_pc = "sent"
  /\ \E reason \in UrlErrorReasons :
       /\ resp' = [kind |-> "url_error", reason |-> reason]
       /\ result' = PyStr(<<"R", "e", "q", "u", "e", "s", "t", " ", "f", "a", "i", "l", "e", "d", ":", " ">> \o reason)
  /\ exec_pc' = "returned"
  /\ UNCHANGED <<operation_id, supplied, path_params, query_params, request_body, req, exc>>
  /\ UNCHANGED <<filterVars, routeVars, laterVars>>

\* lines 337-338: the timeout elapses after the connection is made, while the
\* status line or the body is read; the socket raises TimeoutError, which is
\* neither HTTPError nor URLError and so is caught by no except clause
UrlopenTimeout ==
  /\ exec_pc = "sent"
  /\ resp' = [kind |-> "timeout", after |-> req.timeout]
  /\ exc' = "TimeoutError"
  /\ exec_pc' = "raised"
  /\ UNCHANGED <<operation_id, supplied, path_params, query_params, request_body, req, result>>
  /\ UNCHANGED <<filterVars, routeVars, laterVars>>

NextExec ==
  \/ ExecuteExternalApi
  \/ UrlopenResponse
  \/ UrlopenHTTPError
  \/ UrlopenURLError
  \/ UrlopenTimeout

(***************************************************************************)
(* Delegated-reasoning resolvers (src/external_api.py lines 77-184)        *)
(***************************************************************************)
\* the position of the first occurrence of the character c in s, 0 when
\* there is none (str.find(c) + 1)
Find(s, c) ==
  IF \E i \in 1..Len(s) : s[i] = c
  THEN CHOOSE i \in 1..Len(s) : s[i] = c /\ \A j \in 1..(i - 1) : s[j] # c
  ELSE 0

\* the position of the last occurrence of the character c in s, 0 when there
\* is none (str.rfind(c) + 1)
RFind(s, c) ==
  IF \E i \in 1..Len(s) : s[i] = c
  THEN CHOOSE i \in 1..Len(s) : s[i] = c /\ \A j \in (i + 1)..Len(s) : s[j] # c
  ELSE 0

\* a variant that takes text apart at the first closing brace
ExtractJsonToFirstBrace(text) ==
  IF Contains(text, <<"GRAVE", "GRAVE", "GRAVE">>) /\ Find(text, "{") >= 1 /\ Find(text, "}") >= Find(text, "{")
  THEN Slice(text, Find(text, "{"), Find(text, "}"))
  ELSE text

\* lines 117-121: a text that contains a code fence is cut down to the
\* characters from its first "{" to its last "}", when they exist in that order
ExtractJson(text) ==
  IF Contains(text, <<"GRAVE", "GRAVE", "GRAVE">>) /\ Find(text, "{") >= 1 /\ RFind(text, "}") >= Find(text, "{")
  THEN Slice(text, Find(text, "{"), RFind(text, "}"))
  ELSE text

\* a variant that returns a reply without an operation_id as it is
ResolvedCallUnchecked(data) ==
  PyDict(<< <<<<"o", "p", "e", "r", "a", "t", "i", "o", "n", "_", "i", "d">>, DictGet(data.kv, <<"o", "p", "e", "r", "a", "t", "i", "o", "n", "_", "i", "d">>)>>,
            <<<<"p", "a", "t", "h", "_", "p", "a", "r", "a", "m", "s">>, PyOr(DictGet(data.kv, <<"p", "a", "t", "h", "_", "p", "a", "r", "a", "m", "s">>), EmptyDict)>>,
            <<<<"q", "u", "e", "r", "y", "_", "p", "a", "r", "a", "m", "s">>, PyOr(DictGet(data.kv, <<"q", "u", "e", "r", "y", "_", "p", "a", "r", "a", "m", "s">>), EmptyDict)>>,
            <<<<"r", "e", "q", "u", "e", "s", "t", "_", "b", "o", "d", "y">>, DictGet(data.kv, <<"r", "e", "q", "u", "e", "s", "t", "_", "b", "o", "d", "y">>)>> >>)

\* lines 123-131: None for a falsy operation_id, else the dict of the four
\* fields, an absent or falsy path_params or query_params replaced by {}
ResolvedCall(data) ==
  IF ~Truthy(DictGet(data.kv, <<"o", "p", "e", "r", "a", "t", "i", "o", "n", "_", "i", "d">>)) THEN PyNone
  ELSE PyDict(<< <<<<"o", "p", "e", "r", "a", "t", "i", "o", "n", "_", "i", "d">>, DictGet(data.kv, <<"o", "p", "e", "r", "a", "t", "i", "o", "n", "_", "i", "d">>)>>,
                 <<<<"p", "a", "t", "h", "_", "p", "a", "r", "a", "m", "s">>, PyOr(DictGet(data.kv, <<"p", "a", "t", "h", "_", "p", "a", "r", "a", "m", "s">>), EmptyDict)>>,
                 <<<<"q", "u", "e", "r", "y", "_", "p", "a", "r", "a", "m", "s">>, PyOr(DictGet(data.kv, <<"q", "u", "e", "r", "y", "_", "p", "a", "r", "a", "m", "s">>), EmptyDict)>>,
                 <<<<"r", "e", "q", "u", "e", "s", "t", "_", "b", "o", "d", "y">>, DictGet(data.kv, <<"r", "e", "q", "u", "e", "s", "t", "_", "b", "o", "d", "y">>)>> >>)

\* lines 115-133 (167-184): the content of the reply made into a ResolvedCall;
\* json.JSONDecodeError, and the AttributeError of data.get on a value that is
\* no dict, are caught by "except Exception" and give None
resolve_reply(content) ==
  CHOOSE r \in {IF ~d.ok \/ ~IsDict(d.v) THEN PyNone ELSE ResolvedCall(d.v) :
                  d \in {JsonLoads(ExtractJson(Strip(PyOr(content, PyStr(<<>>)).s)))}} : TRUE

(***************************************************************************)
(* Resolvers: inputs and steps                                             *)
(***************************************************************************)
\* the operation lists handed to a resolver: none, and two catalogs
ResolveOperationLists ==
  { <<>>,
    <<RowToOperation(CatalogRows[2])>>,
    <<RowToOperation(CatalogRows[2]), RowToOperation(CatalogRows[4])>> }

ApiKeys == {PyNone, PyStr(<<>>), PyStr(<<"s", "k", "-", "t", "e", "s", "t">>)}

\* message.content of the replies of the reasoning service
ReplyContents ==
  { PyNone,
    PyStr(<<"{", "\"", "o", "p", "e", "r", "a", "t", "i", "o", "n", "_", "i", "d", "\"", ":", " ", "\"", "H", "o", "t", "e", "l", "s", "_", "G", "e", "t", "\"", ",", " ", "\"", "p", "a", "t", "h", "_", "p", "a", "r", "a", "m", "s", "\"", ":", " ", "{", "\"", "i", "d", "\"", ":", " ", "\"", "7", "\"", "}", ",", " ", "\"", "q", "u", "e", "r", "y", "_", "p", "a", "r", "a", "m", "s", "\"", ":", " ", "{", "}", ",", " ", "\"", "r", "e", "q", "u", "e", "s", "t", "_", "b", "o", "d", "y", "\"", ":", " ", "n", "u", "l", "l", "}">>),
    PyStr(<<"GRAVE", "GRAVE", "GRAVE", "j", "s", "o", "n", "\n", "{", "\"", "o", "p", "e", "r", "a", "t", "i", "o", "n", "_", "i", "d", "\"", ":", "\"", "S", "e", "t", "t", "i", "n", "g", "s", "_", "G", "e", "t", "H", "o", "t", "e", "l", "s", "\"", ",", "\"", "p", "a", "t", "h", "_", "p", "a", "r", "a", "m", "s", "\"", ":", "{", "}", ",", "\"", "q", "u", "e", "r", "y", "_", "p", "a", "r", "a", "m", "s", "\"", ":", "{", "}", ",", "\"", "r", "e", "q", "u", "e", "s", "t", "_", "b", "o", "d", "y", "\"", ":", "n", "u", "l", "l", "}", "\n", "GRAVE", "GRAVE", "GRAVE">>),
    PyStr(<<"H", "e", "r", "e", " ", "i", "t", " ", "i", "s", ":", "\n", "GRAVE", "GRAVE", "GRAVE", "\n", "{", "\"", "o", "p", "e", "r", "a", "t", "i", "o", "n", "_", "i", "d", "\"", ":", " ", "\"", "H", "o", "t", "e", "l", "s", "_", "G", "e", "t", "\"", ",", " ", "\"", "p", "a", "t", "h", "_", "p", "a", "r", "a", "m", "s", "\"", ":", " ", "{", "\"", "i", "d", "\"", ":", " ", "7", "}", ",", " ", "\"", "q", "u", "e", "r", "y", "_", "p", "a", "r", "a", "m", "s", "\"", ":", " ", "{", "\"", "l", "i", "m", "i", "t", "\"", ":", " ", "5", "}", ",", " ", "\"", "r", "e", "q", "u", "e", "s", "t", "_", "b", "o", "d", "y", "\"", ":", " ", "{", "\"", "a", "\"", ":", " ", "{", "\"", "b", "\"", ":", " ", "1", "}", "}", "}", "\n", "GRAVE", "GRAVE", "GRAVE", "\n">>),
    PyStr(<<" ", " ", "{", "\"", "o", "p", "e", "r", "a", "t", "i", "o", "n", "_", "i", "d", "\"", ":", " ", "\"", "H", "o", "t", "e", "l", "s", "_", "G", "e", "t", "\"", ",", " ", "\"", "p", "a", "t", "h", "_", "p", "a", "r", "a", "m", "s", "\"", ":", " ", "n", "u", "l", "l", ",", " ", "\"", "q", "u", "e", "r", "y", "_", "p", "a", "r", "a", "m", "s", "\"", ":", " ", "[", "]", ",", " ", "\"", "r", "e", "q", "u", "e", "s", "t", "_", "b", "o", "d", "y", "\"", ":", " ", "{", "\"", "n", "a", "m", "e", "\"", ":", " ", "\"", "R", "i", "t", "z", "\"", "}", "}", "\n">>),
    PyStr(<<"{", "\"", "o", "p", "e", "r", "a", "t", "i", "o", "n", "_", "i", "d", "\"", ":", " ", "\"", "\"", ",", " ", "\"", "p", "a", "t", "h", "_", "p", "a", "r", "a", "m", "s", "\"", ":", " ", "{", "}", ",", " ", "\"", "q", "u", "e", "r", "y", "_", "p", "a", "r", "a", "m", "s", "\"", ":", " ", "{", "}", ",", " ", "\"", "r", "e", "q", "u", "e", "s", "t", "_", "b", "o", "d", "y", "\"", ":", " ", "n", "u", "l", "l", "}">>),
    PyStr(<<"{", "\"", "p", "a", "t", "h", "_", "p", "a", "r", "a", "m", "s", "\"", ":", " ", "{", "}", ",", " ", "\"", "q", "u", "e", "r", "y", "_", "p", "a", "r", "a", "m", "s", "\"", ":", " ", "{", "}", "}">>),
    PyStr(<<"{", "\"", "o", "p", "e", "r", "a", "t", "i", "o", "n", "_", "i", "d", "\"", ":", " ", "n", "u", "l", "l", "}">>),
    PyStr(<<"{", "\"", "o", "p", "e", "r", "a", "t", "i", "o", "n", "_", "i", "d", "\"", ":", " ", "\"", "H", "o", "t", "e", "l", "s", "_", "D", "e", "s", "t", "r", "o", "y", "\"", ",", " ", "\"", "p", "a", "t", "h", "_", "p", "a", "r", "a", "m", "s", "\"", ":", " ", "{", "}", ",", " ", "\"", "q", "u", "e", "r", "y", "_", "p", "a", "r", "a", "m", "s", "\"", ":", " ", "{", "}", ",", " ", "\"", "r", "e", "q", "u", "e", "s", "t", "_", "b", "o", "d", "y", "\"", ":", " ", "n", "u", "l", "l", "}">>),
    PyStr(<<"{", "\"", "o", "p", "e", "r", "a", "t", "i", "o", "n", "_", "i", "d", "\"", ":", " ", "5", ",", " ", "\"", "p", "a", "t", "h", "_", "p", "a", "r", "a", "m", "s", "\"", ":", " ", "{", "}", ",", " ", "\"", "q", "u", "e", "r", "y", "_", "p", "a", "r", "a", "m", "s", "\"", ":", " ", "{", "}", ",", " ", "\"", "r", "e", "q", "u", "e", "s", "t", "_", "b", "o", "d", "y", "\"", ":", " ", "n", "u", "l", "l", "}">>),
    PyStr(<<"I", " ", "w", "o", "u", "l", "d", " ", "c", "a", "l", "l", " ", "H", "o", "t", "e", "l", "s", "_", "G", "e", "t", ".">>),
    PyStr(<<"{", "\"", "o", "p", "e", "r", "a", "t", "i", "o", "n", "_", "i", "d", "\"", ":", " ", "\"", "H", "o", "t", "e", "l", "s", "_", "G", "e", "t", "\"", "}", " ", "i", "s", " ", "m", "y", " ", "c", "h", "o", "i", "c", "e">>),
    PyStr(<<"GRAVE", "GRAVE", "GRAVE", "\n", "H", "o", "t", "e", "l", "s", "_", "G", "e", "t", "\n", "GRAVE", "GRAVE", "GRAVE">>),
    PyStr(<<"GRAVE", "GRAVE", "GRAVE", " ", "}", " ", "{">>),
    PyStr(<<"[", "\"", "H", "o", "t", "e", "l", "s", "_", "G", "e", "t", "\"", "]">>),
    PyStr(<<"\"", "H", "o", "t", "e", "l", "s", "_", "G", "e", "t", "\"">>) }

\* what the call of the reasoning service does: it answers with a content,
\* or it raises (connection refused, timeout, authentication, empty choices)
ServiceOutcomes ==
  {[kind |-> "content", content |-> c] : c \in ReplyContents}
    \cup {[kind |-> "failure"]}

ResolveInit ==
  /\ openai_installed \in BOOLEAN
  /\ ollama_installed \in BOOLEAN
  /\ api_key \in ApiKeys
  /\ resolve_ops \in ResolveOperationLists
  /\ resolver = "none"
  /\ reply = NotYet
  /\ resolved = NotYet
  /\ resolve_pc = "called"

\* what a resolver returns for an outcome of the service call
ResolveOutcome(outcome) ==
  IF outcome.kind = "failure" THEN PyNone ELSE resolve_reply(outcome.content)

\* resolve_operation_with_openai(user_message, operations_list, api_key)
ResolveWithOpenai ==
  /\ resolve_pc = "called"
  /\ resolver' = "openai"
  /\ IF ~openai_installed \/ ~Truthy(api_key) \/ resolve_ops = <<>>
     THEN /\ resolved' = PyNone
          /\ UNCHANGED reply
     ELSE \E outcome \in ServiceOutcomes :
            /\ reply' = outcome
            /\ resolved' = ResolveOutcome(outcome)
  /\ resolve_pc' = "returned"
  /\ UNCHANGED <<openai_installed, ollama_installed, api_key, resolve_ops>>
  /\ UNCHANGED besideResolveVars

\* resolve_operation_with_ollama(user_message, operations_list, model)
ResolveWithOllama ==
  /\ resolve_pc = "called"
  /\ resolver' = "ollama"
  /\ IF ~ollama_installed \/ resolve_ops = <<>>
     THEN /\ resolved' = PyNone
          /\ UNCHANGED reply
     ELSE \E outcome \in ServiceOutcomes :
            /\ reply' = outcome
            /\ resolved' = ResolveOutcome(outcome)
  /\ resolve_pc' = "returned"
  /\ UNCHANGED <<openai_installed, ollama_installed, api_key, resolve_ops>>
  /\ UNCHANGED besideResolveVars

NextResolve == ResolveWithOpenai \/ ResolveWithOllama

(***************************************************************************)
(* Per-operation synthesis: inputs and the step that applies it            *)
(***************************************************************************)
\* the largest number of operations in an operation list of the model
MaxToolOps == 3

\* a parameter as scripts/sync_swagger_to_db.py stores it when the document
\* gives no schema for it
ParamNoSchema(name, in, required) ==
  [name |-> name, in |-> in, required |-> PyBool(required), schema |-> PyNone]

\* operations of every method, with path, query, header and cookie
\* parameters, a parameter without a location, one without a name, a name at
\* two locations, and type hints that are given, empty and absent
ToolOperations ==
  { RowToOperation(<<<<"A", "i", "r", "p", "o", "r", "t", "s", "_", "G", "e", "t", "P", "a", "s", "s", "e", "n", "g", "e", "r", "s">>, <<"G", "E", "T">>, <<"/", "a", "i", "r", "p", "o", "r", "t", "s", "/", "{", "a", "i", "r", "p", "o", "r", "t", "I", "d", "}", "/", "p", "a", "s", "s", "e", "n", "g", "e", "r", "s">>,
                     PyStr(<<"P", "a", "s", "s", "e", "n", "g", "e", "r", "s", " ", "a", "t", " ", "a", "n", " ", "a", "i", "r", "p", "o", "r", "t">>), PyStr(<<"A", "i", "r", "p", "o", "r", "t", "s">>),
                     PyList(<<Param(<<"a", "i", "r", "p", "o", "r", "t", "I", "d">>, <<"p", "a", "t", "h">>, TRUE, <<"s", "t", "r", "i", "n", "g">>),
                              Param(<<"l", "i", "m", "i", "t">>, <<"q", "u", "e", "r", "y">>, FALSE, <<"i", "n", "t", "e", "g", "e", "r">>),
                              Param(<<"X", "-", "T", "r", "a", "c", "e">>, <<"h", "e", "a", "d", "e", "r">>, TRUE, <<"s", "t", "r", "i", "n", "g">>)>>)>>),
    RowToOperation(<<<<"H", "o", "t", "e", "l", "s", "_", "C", "r", "e", "a", "t", "e">>, <<"p", "o", "s", "t">>, <<"/", "h", "o", "t", "e", "l", "s">>,
                     PyStr(<<" ", " ", "C", "r", "e", "a", "t", "e", " ", "a", " ", "h", "o", "t", "e", "l", " ">>), PyStr(<<"H", "o", "t", "e", "l", "s">>), PyNone>>),
    RowToOperation(<<<<"H", "o", "t", "e", "l", "s", "_", "U", "p", "d", "a", "t", "e">>, <<"P", "U", "T">>, <<"/", "h", "o", "t", "e", "l", "s", "/", "{", "i", "d", "}">>,
                     PyNone, PyStr(<<"H", "o", "t", "e", "l", "s">>),
                     PyList(<<ParamNoSchema(PyStr(<<"i", "d">>), PyStr(<<"p", "a", "t", "h">>), TRUE),
                              [name |-> PyStr(<<"f", "o", "r", "c", "e">>), in |-> PyNone,
                               required |-> PyBool(FALSE),
                               schema |-> PyDict(<< <<<<"t", "y", "p", "e">>, PyStr(<<"b", "o", "o", "l", "e", "a", "n">>)>> >>)]>>)>>),
    RowToOperation(<<<<"H", "o", "t", "e", "l", "s", "_", "P", "a", "t", "c", "h">>, <<"P", "A", "T", "C", "H">>, <<"/", "h", "o", "t", "e", "l", "s", "/", "{", "i", "d", "}">>,
                     PyNone, PyStr(<<"H", "o", "t", "e", "l", "s">>),
                     PyList(<<Param(<<"i", "d">>, <<"P", "a", "t", "h">>, TRUE, <<"s", "t", "r", "i", "n", "g">>),
                              ParamNoSchema(PyNone, PyStr(<<"q", "u", "e", "r", "y">>), TRUE),
                              Param(<<"i", "d">>, <<"q", "u", "e", "r", "y">>, FALSE, <<"s", "t", "r", "i", "n", "g">>)>>)>>),
    RowToOperation(<<<<"H", "o", "t", "e", "l", "s", "_", "D", "e", "l", "e", "t", "e">>, <<"D", "E", "L", "E", "T", "E">>, <<"/", "h", "o", "t", "e", "l", "s", "/", "{", "i", "d", "}">>,
                     PyStr(<<"D", "e", "l", "e", "t", "e", " ", "a", " ", "h", "o", "t", "e", "l">>), PyNone,
                     PyList(<<Param(<<"i", "d">>, <<"p", "a", "t", "h">>, TRUE, <<"i", "n", "t", "e", "g", "e", "r">>),
                              Param(<<"s", "e", "s", "s", "i", "o", "n">>, <<"c", "o", "o", "k", "i", "e">>, TRUE, <<"s", "t", "r", "i", "n", "g">>),
                              [name |-> PyStr(<<"d", "r", "y">>), in |-> PyStr(<<"Q", "U", "E", "R", "Y">>),
                               required |-> PyNone, schema |-> EmptyDict]>>)>>),
    RowToOperation(<<<<"S", "e", "t", "t", "i", "n", "g", "s", "_", "G", "e", "t", "A", "i", "r", "p", "o", "r", "t", "s">>, <<"G", "E", "T">>, <<"/", "a", "i", "r", "p", "o", "r", "t", "s">>,
                     PyStr(<<"A", "l", "l", " ", "a", "i", "r", "p", "o", "r", "t", "s">>), PyStr(<<"S", "e", "t", "t", "i", "n", "g", "s">>), PyList(<<>>)>>) }

\* the operation lists of up to n operations
RECURSIVE OperationLists(_)
OperationLists(n) ==
  IF n = 0 THEN {<<>>}
  ELSE OperationLists(n - 1)
         \cup {Append(l, o) : <<l, o>> \in {x \in OperationLists(n - 1) : Len(x) = n - 1}
                                             \X ToolOperations}

ToolsInit ==
  /\ tool_ops \in OperationLists(MaxToolOps)
  /\ dynamic_tools = NotYet
  /\ tools_pc = "called"

\* dynamic_tools = build_dynamic_tools_from_operations(operations_list)
BuildDynamicTools ==
  /\ tools_pc = "called"
  /\ dynamic_tools' = build_dynamic_tools_from_operations(tool_ops)
  /\ tools_pc' = "built"
  /\ UNCHANGED tool_ops
  /\ UNCHANGED besideToolVars

NextTools == BuildDynamicTools

(***************************************************************************)
(* The catalog load of a session and the writer job                        *)
(***************************************************************************)
\* int(s) for a str of decimal digits with an optional sign and surrounding
\* white space; ValueError otherwise
IntOfStr(s) ==
  LET t == Strip(s)
      signed == t # <<>> /\ Head(t) \in {"+", "-"}
      ds == IF signed THEN Tail(t) ELSE t
  IN  IF ds # <<>> /\ \A i \in 1..Len(ds) : IsDigit(ds[i])
      THEN PyInt(IF signed /\ Head(t) = "-" THEN 0 - DigitsToNat(ds) ELSE DigitsToNat(ds))
      ELSE [t |-> "ValueError"]

\* source_id as _load_external_api_tool passes it on: the int of a non-empty
\* API_SOURCE_ID, None when it is no int, and API_SOURCE_ID itself when it is
\* None or ""
SourceIdOf(env) ==
  IF Truthy(env.API_SOURCE_ID)
  THEN (IF IntOfStr(env.API_SOURCE_ID.s).t = "ValueError" THEN PyNone
        ELSE IntOfStr(env.API_SOURCE_ID.s))
  ELSE env.API_SOURCE_ID

\* the arguments of the load as _load_external_api_tool reads them
LoadArgs(env) ==
  [database_url |-> env.DATABASE_URL,
   source_name  |-> env.API_SOURCE_NAME,
   source_id    |-> SourceIdOf(env),
   bearer_token |-> PyOr(env.EXTERNAL_API_BEARER_TOKEN, env.BEARER_TOKEN)]

\* the two early returns of _load_external_api_tool
ConfigMissing(a) ==
  \/ ~Truthy(a.database_url) \/ ~Truthy(a.bearer_token)
  \/ (~Truthy(a.source_name) /\ IsNone(a.source_id))

\* the two early returns of load_api_source_and_operations
LoadRefused(a, installed) ==
  \/ ~Truthy(a.database_url)
  \/ ~Truthy(PyOr(a.source_name, a.source_id))
  \/ ~installed

\* s.rstrip("/")
RECURSIVE RStripSlash(_)
RStripSlash(s) ==
  IF s # <<>> /\ s[Len(s)] = "/" THEN RStripSlash(SubSeq(s, 1, Len(s) - 1)) ELSE s

\* a < b for two strs, character by character
RECURSIVE StrLess(_, _)
StrLess(a, b) ==
  IF b = <<>> THEN FALSE
  ELSE IF a = <<>> THEN TRUE
  ELSE IF Head(a) = Head(b) THEN StrLess(Tail(a), Tail(b))
  ELSE Ord(Head(a)) < Ord(Head(b))

\* ORDER BY tag, operation_id: ascending, a NULL tag after every tag
RowBefore(r1, r2) ==
  IF r1.tag = r2.tag THEN StrLess(r1.operation_id, r2.operation_id)
  ELSE IF IsNone(r1.tag) THEN FALSE
  ELSE IF IsNone(r2.tag) THEN TRUE
  ELSE StrLess(r1.tag.s, r2.tag.s)

RECURSIVE OrderRows(_)
OrderRows(rows) ==
  IF rows = {} THEN <<>>
  ELSE LET first == CHOOSE r \in rows : \A q \in rows \ {r} : RowBefore(r, q)
       IN  <<first>> \o OrderRows(rows \ {first})

\* the first query of load_api_source_and_operations: the rows of api_sources
\* with the id, or else with the name
SelectSourceRows(sources, a) ==
  IF ~IsNone(a.source_id)
  THEN {s \in sources : a.source_id.t = "int" /\ s.id = a.source_id.n}
  ELSE {s \in sources : s.name = a.source_name.s}

\* the second query, made into the operations list
SelectOperations(operations, api_source_id) ==
  LET rows == OrderRows({r \in operations : r.api_source_id = api_source_id})
  IN  [i \in 1..Len(rows) |->
         RowToOperation(<<rows[i].operation_id, rows[i].method, rows[i].path_template,
                          rows[i].summary, rows[i].tag, rows[i].parameters_schema>>)]

\* {op["operation_id"]: op for op in operations_list}, in insertion order:
\* a repeated id keeps its first place and its last value
RECURSIVE OperationsById(_, _, _)
OperationsById(operations, i, acc) ==
  IF i > Len(operations) THEN acc
  ELSE OperationsById(
         operations, i + 1,
         IF \E j \in 1..Len(acc) : acc[j].operation_id = operations[i].operation_id
         THEN [j \in 1..Len(acc) |->
                 IF acc[j].operation_id = operations[i].operation_id
                 THEN operations[i] ELSE acc[j]]
         ELSE Append(acc, operations[i]))

\* the names of inventory_tools of run()
InventoryToolNames ==
  <<<<"c", "h", "e", "c", "k", "_", "i", "n", "v", "e", "n", "t", "o", "r", "y">>, <<"g", "e", "t", "_", "l", "o", "w", "_", "s", "t", "o", "c", "k", "_", "r", "e", "p", "o", "r", "t">>, <<"g", "e", "t", "_", "r", "e", "c", "e", "n", "t", "_", "t", "r", "a", "n", "s", "a", "c", "t", "i", "o", "n", "s">>,
    <<"c", "a", "l", "c", "u", "l", "a", "t", "e", "_", "i", "n", "v", "e", "n", "t", "o", "r", "y", "_", "v", "a", "l", "u", "e">>, <<"f", "i", "n", "d", "_", "p", "r", "o", "d", "u", "c", "t", "s", "_", "b", "y", "_", "b", "r", "a", "n", "d">>>>

\* inventory_tools of run(), each tool with its name alone
InventoryTools ==
  [i \in 1..Len(InventoryToolNames) |->
     [type |-> "function", function |-> [name |-> InventoryToolNames[i]]]]

\* what _load_external_api_tool returns for a loaded (base_url, operations_list):
\* ([], None) when either is falsy
LoadedTool(base_url, operations, bearer_token) ==
  IF ~Truthy(base_url) \/ operations = <<>>
  THEN [dynamic_tools |-> <<>>, handler_data |-> PyNone]
  ELSE [dynamic_tools |-> build_dynamic_tools_from_operations(operations),
        handler_data  |-> [t |-> "handler_data",
                           base_url |-> base_url.s,
                           bearer_token |-> bearer_token.s,
                           operations_by_id |-> OperationsById(operations, 1, <<>>)]]

\* tools of run(): inventory_tools + (dynamic_external_tools if external_api_data else [])
SessionTools(tool) ==
  InventoryTools \o (IF IsNone(tool.handler_data) THEN <<>> ELSE tool.dynamic_tools)

\* whether _external_api_handle_call(name, args, data) makes the external
\* call: data is set and name is one of its operations
HandledExternally(name, data) ==
  /\ ~IsNone(data)
  /\ \E i \in 1..Len(data.operations_by_id) : data.operations_by_id[i].operation_id = name

\* the row the writer inserts for an operation parse_operations yielded:
\* "" becomes a NULL summary, an empty parameters list a NULL parameters_schema
OperationRow(api_source_id, parsed) ==
  [api_source_id     |-> api_source_id,
   operation_id      |-> parsed[3],
   method            |-> parsed[1],
   path_template     |-> parsed[2],
   summary           |-> IF parsed[4] = <<>> THEN PyNone ELSE PyStr(parsed[4]),
   tag               |-> parsed[5],
   parameters_schema |-> IF Truthy(parsed[6]) THEN parsed[6] ELSE PyNone,
   request_body_schema_ref |-> parsed[7]]

\* INSERT INTO api_sources ... ON CONFLICT (name) DO UPDATE ... RETURNING id:
\* the row with the name gets the base_url and keeps its id, a new row gets
\* the next id
UpsertSource(sources, name, base_url) ==
  IF \E s \in sources : s.name = name
  THEN {IF s.name = name THEN [s EXCEPT !.base_url = base_url] ELSE s : s \in sources}
  ELSE sources \cup {[id |-> Cardinality(sources) + 1, name |-> name, base_url |-> base_url]}

SourceId(sources, name) == (CHOOSE s \in sources : s.name = name).id

(***************************************************************************)
(* Inputs of the load and of the writer job                                *)
(***************************************************************************)
\* the number of writer jobs of a behaviour
MaxSyncs == 2

Configured ==
  [DATABASE_URL              |-> PyStr(<<"p", "o", "s", "t", "g", "r", "e", "s", "q", "l", ":", "/", "/", "d", "b", "/", "c", "a", "t", "a", "l", "o", "g">>),
   API_SOURCE_NAME           |-> PyStr(<<"F", "l", "y", "t", "e", "l">>),
   API_SOURCE_ID             |-> PyNone,
   EXTERNAL_API_BEARER_TOKEN |-> PyStr(<<"t", "o", "k">>),
   BEARER_TOKEN              |-> PyNone]

\* the configured environment and the ways it can fall short: no backend, no
\* key, a key that is no number, a key nothing matches, no credential
Environments ==
  { Configured,
    [Configured EXCEPT !.DATABASE_URL = PyNone],
    [Configured EXCEPT !.DATABASE_URL = PyStr(<<>>)],
    [Configured EXCEPT !.API_SOURCE_NAME = PyNone],
    [Configured EXCEPT !.API_SOURCE_NAME = PyNone, !.API_SOURCE_ID = PyStr(<<"1">>)],
    [Configured EXCEPT !.API_SOURCE_NAME = PyNone, !.API_SOURCE_ID = PyStr(<<"2">>)],
    [Configured EXCEPT !.API_SOURCE_NAME = PyNone, !.API_SOURCE_ID = PyStr(<<"o", "n", "e">>)],
    [Configured EXCEPT !.API_SOURCE_NAME = PyNone, !.API_SOURCE_ID = PyStr(<<"0">>)],
    [Configured EXCEPT !.API_SOURCE_ID = PyStr(<<>>)],
    [Configured EXCEPT !.API_SOURCE_NAME = PyStr(<<"O", "t", "h", "e", "r">>)],
    [Configured EXCEPT !.API_SOURCE_NAME = PyStr(<<"O", "t", "h", "e", "r">>), !.API_SOURCE_ID = PyStr(<<" ", "1", " ">>)],
    [Configured EXCEPT !.EXTERNAL_API_BEARER_TOKEN = PyNone],
    [Configured EXCEPT !.EXTERNAL_API_BEARER_TOKEN = PyNone, !.BEARER_TOKEN = PyStr(<<"t", "o", "k", "2">>)],
    [Configured EXCEPT !.EXTERNAL_API_BEARER_TOKEN = PyStr(<<>>)] }

\* an operation as parse_operations yields it, from a row of CatalogRows
Parsed(r) == <<r[2], r[3], r[1], PyOr(r[4], PyStr(<<>>)).s, r[5], r[6], PyNone>>

\* SOURCE_NAME of the writer job
SyncSourceName == <<"F", "l", "y", "t", "e", "l">>

\* what the writer job got from three versions of the document: base_url
\* and the operations; the second has an operation without tag and summary,
\* the third has no paths
SwaggerDocs ==
  { [base_url   |-> <<"h", "t", "t", "p", "s", ":", "/", "/", "a", "p", "i", ".", "f", "l", "y", "t", "e", "l", ".", "t", "e", "s", "t", "/", "v", "1">>,
     operations |-> <<Parsed(CatalogRows[3]), Parsed(CatalogRows[2])>>],
    [base_url   |-> <<"h", "t", "t", "p", "s", ":", "/", "/", "a", "p", "i", ".", "f", "l", "y", "t", "e", "l", ".", "t", "e", "s", "t", "/", "v", "2">>,
     operations |-> <<Parsed(CatalogRows[4]),
                      <<<<"G", "E", "T">>, <<"/", "p", "i", "n", "g">>, <<"G", "E", "T", "_", "/", "p", "i", "n", "g">>, <<>>, PyNone, PyList(<<>>), PyNone>> >>],
    [base_url   |-> <<"h", "t", "t", "p", "s", ":", "/", "/", "a", "p", "i", ".", "f", "l", "y", "t", "e", "l", ".", "t", "e", "s", "t", "/", "v", "3">>,
     operations |-> <<>>] }

\* the tables after a writer job that committed doc into the empty database
TablesOf(doc) ==
  [sources    |-> UpsertSource({}, SyncSourceName, doc.base_url),
   operations |-> {OperationRow(1, doc.operations[i]) : i \in 1..Len(doc.operations)}]

\* a committed version of the source: its base_url with its operations
Version(tables, name) ==
  [base_url   |-> (CHOOSE s \in tables.sources : s.name = name).base_url,
   operations |-> {r \in tables.operations : r.api_source_id = SourceId(tables.sources, name)}]

\* the database before the load: empty, or as an earlier writer job left it
InitialTables ==
  {NoTables} \cup {TablesOf(doc) : doc \in {d \in SwaggerDocs : d.operations # <<>>}}

\* the tool names the reasoning service calls in the session
CalledNames == {<<"c", "h", "e", "c", "k", "_", "i", "n", "v", "e", "n", "t", "o", "r", "y">>, <<"H", "o", "t", "e", "l", "s", "_", "G", "e", "t">>, <<"S", "e", "t", "t", "i", "n", "g", "s", "_", "G", "e", "t", "H", "o", "t", "e", "l", "s">>}

LoadInit ==
  /\ environ \in Environments
  /\ psycopg2_installed \in BOOLEAN
  /\ isolation \in {"read committed", "repeatable read"}
  /\ \E tables \in InitialTables :
       /\ api_sources = tables.sources
       /\ api_operations = tables.operations
       /\ committed = IF tables = NoTables THEN {} ELSE {Version(tables, SyncSourceName)}
  /\ sync_doc = NotYet
  /\ sync_txn = NoTables
  /\ sync_todo = <<>>
  /\ sync_runs = 0
  /\ sync_pc = "idle"
  /\ load_args = NotYet
  /\ load_snapshot = NoTables
  /\ load_row = NotYet
  /\ loaded = NotYet
  /\ external_api_data = NotYet
  /\ session_tools = <<>>
  /\ handled = NotYet
  /\ load_pc = "start"

(***************************************************************************)
(* The load, src/app.py _load_external_api_tool and                        *)
(* src/external_api.py load_api_source_and_operations                      *)
(***************************************************************************)
\* run() goes on with what _load_external_api_tool returned
SessionWith(tool) ==
  /\ external_api_data' = tool.handler_data
  /\ session_tools' = SessionTools(tool)
  /\ load_pc' = "session"

NoTool == [dynamic_tools |-> <<>>, handler_data |-> PyNone]

NonePair == <<PyNone, PyNone>>

\* _load_external_api_tool up to psycopg2.connect
LoadExternalApiTool ==
  /\ load_pc = "start"
  /\ \E a \in {LoadArgs(environ)} :
       /\ load_args' = a
       /\ IF ConfigMissing(a)
          THEN loaded' = NotYet /\ SessionWith(NoTool)
          ELSE IF LoadRefused(a, psycopg2_installed)
          THEN loaded' = NonePair /\ SessionWith(NoTool)
          ELSE /\ loaded' = NotYet
               /\ load_pc' = "connecting"
               /\ UNCHANGED <<external_api_data, session_tools>>
  /\ UNCHANGED <<environ, psycopg2_installed, isolation, load_snapshot, load_row, handled>>
  /\ UNCHANGED <<syncVars, besideLoadVars>>

\* psycopg2.connect raises: return None, None
ConnectFails ==
  /\ load_pc = "connecting"
  /\ loaded' = NonePair
  /\ SessionWith(NoTool)
  /\ UNCHANGED <<environ, psycopg2_installed, isolation, load_args, load_snapshot, load_row, handled>>
  /\ UNCHANGED <<syncVars, besideLoadVars>>

Connects ==
  /\ load_pc = "connecting"
  /\ load_pc' = "connected"
  /\ UNCHANGED <<environ, psycopg2_installed, isolation, load_args, load_snapshot, load_row,
                 loaded, external_api_data, session_tools, handled>>
  /\ UNCHANGED <<syncVars, besideLoadVars>>

\* the first query and fetchone: it sees what is committed; no row closes
\* the connection and returns None, None
SelectSource ==
  /\ load_pc = "connected"
  /\ load_snapshot' = [sources |-> api_sources, operations |-> api_operations]
  /\ \E rows \in {SelectSourceRows(api_sources, load_args)} :
       IF rows = {}
       THEN /\ loaded' = NonePair
            /\ SessionWith(NoTool)
            /\ UNCHANGED load_row
       ELSE /\ \E row \in rows : load_row' = row
            /\ load_pc' = "source_read"
            /\ UNCHANGED <<loaded, external_api_data, session_tools>>
  /\ UNCHANGED <<environ, psycopg2_installed, isolation, load_args, handled>>
  /\ UNCHANGED <<syncVars, besideLoadVars>>

\* the second query, the return of load_api_source_and_operations and the
\* rest of _load_external_api_tool; under "read committed" the query sees what
\* is committed now, under "repeatable read" what the first query saw
SelectOperationsAndReturn ==
  /\ load_pc = "source_read"
  /\ \E seen \in {IF isolation = "repeatable read" THEN load_snapshot.operations
                  ELSE api_operations} :
     \E operations \in {SelectOperations(seen, load_row.id)} :
     \E base_url \in {PyStr(RStripSlash(load_row.base_url))} :
       /\ loaded' = <<base_url, operations>>
       /\ SessionWith(LoadedTool(base_url, operations, load_args.bearer_token))
  /\ UNCHANGED <<environ, psycopg2_installed, isolation, load_args, load_snapshot, load_row, handled>>
  /\ UNCHANGED <<syncVars, besideLoadVars>>

\* cur.execute raises (the connection is lost, a table is missing, the
\* statement is refused): finally closes the connection and the exception
\* leaves load_api_source_and_operations, _load_external_api_tool and run()
QueryRaises ==
  /\ load_pc \in {"connected", "source_read"}
  /\ loaded' = [t |-> "raised"]
  /\ load_pc' = "raised"
  /\ UNCHANGED <<environ, psycopg2_installed, isolation, load_args, load_snapshot, load_row,
                 external_api_data, session_tools, handled>>
  /\ UNCHANGED <<syncVars, besideLoadVars>>

\* a tool call of the session: _external_api_handle_call makes the external
\* call for an operation of external_api_data and leaves every other name to
\* the local tools
HandleCall ==
  /\ load_pc = "session"
  /\ \E name \in CalledNames :
       /\ handled' = [name |-> name,
                      route |-> IF HandledExternally(name, external_api_data)
                                THEN "external" ELSE "local"]
       /\ handled' # handled
  /\ UNCHANGED <<environ, psycopg2_installed, isolation, load_args, load_snapshot, load_row,
                 loaded, external_api_data, session_tools, load_pc>>
  /\ UNCHANGED <<syncVars, besideLoadVars>>

(***************************************************************************)
(* The writer job, src/scripts/sync_swagger_to_db.py run()                 *)
(***************************************************************************)
\* run() up to psycopg2.connect: the document is fetched and parsed
SyncConnect ==
  /\ sync_pc = "idle"
  /\ sync_runs < MaxSyncs
  /\ sync_runs' = sync_runs + 1
  /\ sync_doc' \in SwaggerDocs
  /\ sync_txn' = [sources |-> api_sources, operations |-> api_operations]
  /\ sync_todo' = <<>>
  /\ sync_pc' = "connected"
  /\ UNCHANGED <<api_sources, api_operations, committed>>
  /\ UNCHANGED <<loadVars, besideLoadVars>>

\* the upsert of the source
SyncUpsert ==
  /\ sync_pc = "connected"
  /\ sync_txn' = [sync_txn EXCEPT !.sources = UpsertSource(@, SyncSourceName, sync_doc.base_url)]
  /\ sync_pc' = "upserted"
  /\ UNCHANGED <<api_sources, api_operations, committed, sync_doc, sync_todo, sync_runs>>
  /\ UNCHANGED <<loadVars, besideLoadVars>>

\* DELETE FROM api_operations WHERE api_source_id = ...
SyncDelete ==
  /\ sync_pc = "upserted"
  /\ sync_txn' = [sync_txn EXCEPT !.operations =
                    {r \in @ : r.api_source_id # SourceId(sync_txn.sources, SyncSourceName)}]
  /\ sync_todo' = sync_doc.operations
  /\ sync_pc' = "inserting"
  /\ UNCHANGED <<api_sources, api_operations, committed, sync_doc, sync_runs>>
  /\ UNCHANGED <<loadVars, besideLoadVars>>

\* one INSERT INTO api_operations
SyncInsert ==
  /\ sync_pc = "inserting"
  /\ sync_todo # <<>>
  /\ sync_txn' = [sync_txn EXCEPT !.operations =
                    @ \cup {OperationRow(SourceId(sync_txn.sources, SyncSourceName),
                                         Head(sync_todo))}]
  /\ sync_todo' = Tail(sync_todo)
  /\ UNCHANGED <<api_sources, api_operations, committed, sync_doc, sync_runs, sync_pc>>
  /\ UNCHANGED <<loadVars, besideLoadVars>>

\* conn.commit()
SyncCommit ==
  /\ sync_pc = "inserting"
  /\ sync_todo = <<>>
  /\ api_sources' = sync_txn.sources
  /\ api_operations' = sync_txn.operations
  /\ committed' = committed \cup {Version(sync_txn, SyncSourceName)}
  /\ sync_txn' = NoTables
  /\ sync_doc' = NotYet
  /\ sync_pc' = "idle"
  /\ UNCHANGED <<sync_todo, sync_runs>>
  /\ UNCHANGED <<loadVars, besideLoadVars>>

\* a statement or the commit raises: conn.rollback() and sys.exit(1)
SyncRollback ==
  /\ sync_pc \in {"connected", "upserted", "inserting"}
  /\ sync_txn' = NoTables
  /\ sync_doc' = NotYet
  /\ sync_todo' = <<>>
  /\ sync_pc' = "idle"
  /\ UNCHANGED <<api_sources, api_operations, committed, sync_runs>>
  /\ UNCHANGED <<loadVars, besideLoadVars>>

NextLoad ==
  \/ LoadExternalApiTool
  \/ ConnectFails
  \/ Connects
  \/ SelectSource
  \/ SelectOperationsAndReturn
  \/ QueryRaises
  \/ HandleCall
  \/ SyncConnect
  \/ SyncUpsert
  \/ SyncDelete
  \/ SyncInsert
  \/ SyncCommit
  \/ SyncRollback

(***************************************************************************)
(* The dispatch loop, src/app.py run() and _handle_tool_response           *)
(***************************************************************************)
EXTERNAL_API_KEYWORDS ==
  <<<<"a", "i", "r", "p", "o", "r", "t">>, <<"p", "a", "s", "s", "e", "n", "g", "e", "r">>, <<"h", "o", "t", "e", "l">>, <<"f", "l", "y", "t", "e", "l">>, <<"f", "l", "i", "g", "h", "t">>, <<"d", "a", "s", "h", "b", "o", "a", "r", "d">>, <<"s", "e", "t", "t", "i", "n", "g", "s">>>>

\* _external_api_is_request(user_input, external_api_data)
external_api_is_request(utterance, data) ==
  /\ ~IsNone(data)
  /\ utterance # <<>>
  /\ \E i \in 1..Len(EXTERNAL_API_KEYWORDS) : Contains(Lower(utterance), EXTERNAL_API_KEYWORDS[i])

\* op_ids = (external_api_data or {}).get("operations_by_id") or {}
OpIds(data) == IF IsNone(data) THEN <<>> ELSE data.operations_by_id

\* use_tools of a turn: the keyword strategy over the external tools for an
\* external request, every tool otherwise
UseTools(all_tools, utterance, data) ==
  IF external_api_is_request(utterance, data) /\ ~IsNone(data)
  THEN filter_external_tools_by_query(
         SelectSeq(all_tools, LAMBDA t : InOperations(OpIds(data), ToolName(t))),
         utterance, OpIds(data))
  ELSE all_tools

\* the system message; its content depends on external_api_data alone
SystemMessage(data) ==
  [role |-> "system",
   content |-> IF IsNone(data) THEN <<"Y", "o", "u", " ", "a", "r", "e", " ", "a", "n", " ", "i", "n", "v", "e", "n", "t", "o", "r", "y", " ", "m", "a", "n", "a", "g", "e", "r", ".">>
               ELSE <<"C", "R", "I", "T", "I", "C", "A", "L", ":", " ", "U", "s", "e", " ", "t", "h", "e", " ", "A", "P", "I", " ", "t", "o", "o", "l", " ", "w", "h", "o", "s", "e", " ", "n", "a", "m", "e", " ", "m", "a", "t", "c", "h", "e", "s", " ", "t", "h", "e", " ", "r", "e", "q", "u", "e", "s", "t">>]

UserMessage(utterance) == [role |-> "user", content |-> utterance]

ToolMessage(content) == [role |-> "tool", content |-> content]

\* name of the i-th tool call: its name, else the name of the i-th tool of
\* use_tools, else "unknown"
CallName(call, i, offered) ==
  IF Truthy(call.name) THEN call.name.s
  ELSE IF i <= Len(offered) /\ ToolName(offered[i]) # <<>> THEN ToolName(offered[i])
  ELSE <<"u", "n", "k", "n", "o", "w", "n">>

\* args of a tool call: a str is json.loads-ed, {} when it is blank or no
\* JSON; anything that is no dict becomes {}
CallArgs(arguments) ==
  LET a == IF IsStr(arguments)
           THEN (IF Strip(arguments.s) # <<>>
                 THEN (IF JsonLoads(arguments.s).ok THEN JsonLoads(arguments.s).v ELSE EmptyDict)
                 ELSE EmptyDict)
           ELSE arguments
  IN  IF IsDict(a) THEN a ELSE EmptyDict

\* what the remote server answers in the model: the request line
ExternalResult(data, name, args) ==
  LET operation == OperationAt(data.operations_by_id, name)
      parts == args_to_request_parts(operation, args)
      url == build_url(data.base_url, operation.path_template,
                       CoerceParams(parts.path_params), CoerceParams(parts.query_params))
  IN  PyStr(Upper(operation.method) \o <<" ">> \o url.v)

\* the argument the local tool reads with args.get(key, '')
LocalArgument(name) ==
  IF name \in {<<"c", "h", "e", "c", "k", "_", "i", "n", "v", "e", "n", "t", "o", "r", "y">>, <<"g", "e", "t", "_", "r", "e", "c", "e", "n", "t", "_", "t", "r", "a", "n", "s", "a", "c", "t", "i", "o", "n", "s">>} THEN <<"p", "r", "o", "d", "u", "c", "t", "_", "n", "a", "m", "e">>
  ELSE IF name = <<"f", "i", "n", "d", "_", "p", "r", "o", "d", "u", "c", "t", "s", "_", "b", "y", "_", "b", "r", "a", "n", "d">> THEN <<"b", "r", "a", "n", "d", "_", "n", "a", "m", "e">>
  ELSE <<>>

\* the result of a call _external_api_handle_call left to the local tools;
\* what a local tool answers in the model: its name and its argument
LocalResult(name, args) ==
  IF \E i \in 1..Len(InventoryToolNames) : InventoryToolNames[i] = name
  THEN PyStr(name \o <<":">> \o
             (IF HasKey(args.kv, LocalArgument(name))
              THEN StrOf(DictGet(args.kv, LocalArgument(name))) ELSE <<>>))
  ELSE PyStr(<<"U", "n", "k", "n", "o", "w", "n", " ", "t", "o", "o", "l", ":", " ">> \o name)

\* result of a tool call
ToolResult(data, name, args) ==
  IF HandledExternally(name, data) THEN ExternalResult(data, name, args)
  ELSE LocalResult(name, args)

\* external_api_data as a tool call leaves it: _external_api_handle_call,
\* args_to_request_parts and execute_external_api read it only
CatalogAfterCall(data, name) == data

\* a variant that takes request_body out of args while routing
ArgsAfterCallPopsBody(operation, args) ==
  [args EXCEPT !.kv = SelectSeq(@, LAMBDA e : e[1] # <<"r", "e", "q", "u", "e", "s", "t", "_", "b", "o", "d", "y">>)]

\* the dict args as args_to_request_parts and the handlers leave it: they
\* read it and assign to their own path_params and query_params only
ArgsAfterCall(operation, args) == args

\* whether the for loop over tool_calls is through after call i of n
BatchDone(i, n) == i >= n

\* a variant that carries the user messages alone into the next turn
PersistUserOnly(history, turn_messages) == history

\* conversation_messages = messages[1:]
PersistTurn(history, turn_messages) == Tail(turn_messages)

\* the condition under which run() reports a model without tool calling
IsToolsUnsupported(e) ==
  \/ Contains(Lower(e.error), <<"d", "o", "e", "s", " ", "n", "o", "t", " ", "s", "u", "p", "p", "o", "r", "t", " ", "t", "o", "o", "l", "s">>)
  \/ (e.status_code = 400 /\ Contains(Lower(e.error), <<"t", "o", "o", "l", "s">>))

\* the index in messages of the response that is being handled
ResponseAt(history) ==
  CHOOSE p \in 1..Len(history) :
    /\ history[p].role = "assistant"
    /\ \A q \in (p + 1)..Len(history) : history[q].role # "assistant"

\* messages with the arguments of call i of the response at p rebound
WithArguments(history, p, i, arguments) ==
  [history EXCEPT ![p].tool_calls[i].arguments = arguments]

(***************************************************************************)
(* Inputs of the dispatch loop                                             *)
(***************************************************************************)
\* the number of utterances of a session that are no exit
MaxTurns == 2

\* the number of tool calls the reasoning service makes in a session
MaxInvocations == 3

\* the catalog of the session: absent, or loaded from three rows
LoopCatalogs ==
  {NoTool,
   LoadedTool(PyStr(<<"h", "t", "t", "p", "s", ":", "/", "/", "a", "p", "i", ".", "f", "l", "y", "t", "e", "l", ".", "t", "e", "s", "t">>),
              [i \in 1..3 |-> RowToOperation(CatalogRows[i + 1])],
              PyStr(<<"t", "o", "k">>))}

LoopUtterances == {<<"l", "i", "s", "t", " ", "o", "f", " ", "a", "i", "r", "p", "o", "r", "t", "s">>, <<"h", "o", "w", " ", "m", "a", "n", "y", " ", "b", "o", "l", "t", "s", "?">>, <<"E", "x", "i", "t">>}

\* the tool calls the reasoning service makes: an operation with a dict of
\* arguments that holds a request_body, and a call without a name whose
\* arguments are a JSON str
ToolCalls ==
  {[name |-> PyStr(<<"H", "o", "t", "e", "l", "s", "_", "G", "e", "t">>),
    arguments |-> PyDict(<< <<<<"i", "d">>, PyStr(<<"7">>)>>,
                            <<<<"r", "e", "q", "u", "e", "s", "t", "_", "b", "o", "d", "y">>, PyDict(<< <<<<"n", "o", "t", "e">>, PyStr(<<"x">>)>> >>)>> >>)],
   [name |-> PyNone,
    arguments |-> PyStr(<<"{", "\"", "p", "r", "o", "d", "u", "c", "t", "_", "n", "a", "m", "e", "\"", ":", " ", "\"", "b", "o", "l", "t", "\"", "}">>)]}

RECURSIVE SeqsUpTo(_, _)
SeqsUpTo(S, n) ==
  IF n = 0 THEN {<<>>}
  ELSE SeqsUpTo(S, n - 1) \cup
       {Append(q, x) : q \in {r \in SeqsUpTo(S, n - 1) : Len(r) = n - 1}, x \in S}

\* the responses of the reasoning service that make up to n tool calls
Responses(n) ==
  {[role |-> "assistant",
    content |-> IF calls = <<>> THEN <<"D", "o", "n", "e", ".">> ELSE <<>>,
    tool_calls |-> calls] : calls \in SeqsUpTo(ToolCalls, n)}

\* the ResponseErrors of ollama.chat: the model has no tool calling; the tools
\* of the request are malformed; the model is unknown; the service is down
ResponseErrors ==
  {[t |-> "ResponseError", status_code |-> 400,
    error |-> <<"r", "e", "g", "i", "s", "t", "r", "y", ".", "o", "l", "l", "a", "m", "a", ".", "a", "i", "/", "l", "i", "b", "r", "a", "r", "y", "/", "g", "e", "m", "m", "a", ":", "2", "b", " ", "d", "o", "e", "s", " ", "n", "o", "t", " ", "s", "u", "p", "p", "o", "r", "t", " ", "t", "o", "o", "l", "s">>],
   [t |-> "ResponseError", status_code |-> 400,
    error |-> <<"j", "s", "o", "n", ":", " ", "c", "a", "n", "n", "o", "t", " ", "u", "n", "m", "a", "r", "s", "h", "a", "l", " ", "s", "t", "r", "i", "n", "g", " ", "i", "n", "t", "o", " ", "G", "o", " ", "s", "t", "r", "u", "c", "t", " ", "f", "i", "e", "l", "d", " ", "C", "h", "a", "t", "R", "e", "q", "u", "e", "s", "t", ".", "t", "o", "o", "l", "s", " ", "o", "f", " ", "t", "y", "p", "e", " ", "a", "p", "i", ".", "T", "o", "o", "l">>],
   [t |-> "ResponseError", status_code |-> 404,
    error |-> <<"m", "o", "d", "e", "l", " ", "\"", "f", "u", "n", "c", "t", "i", "o", "n", "g", "e", "m", "m", "a", "\"", " ", "n", "o", "t", " ", "f", "o", "u", "n", "d", ",", " ", "t", "r", "y", " ", "p", "u", "l", "l", "i", "n", "g", " ", "i", "t", " ", "f", "i", "r", "s", "t">>],
   [t |-> "ResponseError", status_code |-> 500,
    error |-> <<"l", "l", "a", "m", "a", " ", "r", "u", "n", "n", "e", "r", " ", "p", "r", "o", "c", "e", "s", "s", " ", "h", "a", "s", " ", "t", "e", "r", "m", "i", "n", "a", "t", "e", "d">>]}

\* what ollama.chat raises: a ResponseError, or a ConnectionError
ChatErrors == ResponseErrors \cup {[t |-> "ConnectionError"]}

LoopInit ==
  /\ \E tool \in LoopCatalogs :
       /\ external_api_data = tool.handler_data
       /\ session_tools = SessionTools(tool)
  /\ user_input = <<>>
  /\ use_tools = NoTools
  /\ conversation_messages = <<>>
  /\ messages = <<>>
  /\ response = NotYet
  /\ tool_i = 0
  /\ chat_log = <<>>
  /\ executed = <<>>
  /\ turns = 0
  /\ loop_pc = "input"

(***************************************************************************)
(* The steps of the dispatch loop                                          *)
(***************************************************************************)
\* the tool calls the reasoning service can still make
Remaining == MaxInvocations - Len(executed)

\* input() of run() up to ollama.chat: exit and quit end the session
ReadInput ==
  /\ loop_pc = "input"
  /\ \E utterance \in LoopUtterances :
       /\ user_input' = utterance
       /\ IF Lower(utterance) \in {<<"e", "x", "i", "t">>, <<"q", "u", "i", "t">>}
          THEN /\ loop_pc' = "exited"
               /\ UNCHANGED <<conversation_messages, messages, use_tools, turns>>
          ELSE /\ turns < MaxTurns
               /\ turns' = turns + 1
               /\ conversation_messages' = Append(conversation_messages, UserMessage(utterance))
               /\ messages' = <<SystemMessage(external_api_data)>> \o conversation_messages'
               /\ use_tools' = UseTools(session_tools, utterance, external_api_data)
               /\ loop_pc' = "thinking"
  /\ UNCHANGED <<response, tool_i, chat_log, executed, sessionVars>>
  /\ UNCHANGED besideLoopVars

\* ollama.chat(model, messages, tools=use_tools) returns
ChatAnswers ==
  /\ loop_pc = "thinking"
  /\ response' \in Responses(Remaining)
  /\ chat_log' = Append(chat_log, [len |-> Len(messages), offered |-> TRUE])
  /\ loop_pc' = "handling"
  /\ UNCHANGED <<conversation_messages, messages, tool_i, executed, turns, turnVars, sessionVars>>
  /\ UNCHANGED besideLoopVars

\* ollama.chat(..., tools=use_tools) raises: sys.exit(1) for a ResponseError
\* that IsToolsUnsupported, and the exception leaves run() otherwise
ChatRaises ==
  /\ loop_pc = "thinking"
  /\ \E e \in ChatErrors :
       /\ response' = e
       /\ loop_pc' = IF e.t = "ResponseError" /\ IsToolsUnsupported(e) THEN "exit1" ELSE "raised"
  /\ chat_log' = Append(chat_log, [len |-> Len(messages), offered |-> TRUE])
  /\ UNCHANGED <<conversation_messages, messages, tool_i, executed, turns, turnVars, sessionVars>>
  /\ UNCHANGED besideLoopVars

\* the head of the loop of _handle_tool_response: a response without tool
\* calls ends the turn, and run() persists it; otherwise the response is
\* appended and the for loop starts
HandleResponse ==
  /\ loop_pc = "handling"
  /\ IF response.tool_calls = <<>>
     THEN /\ conversation_messages' = PersistTurn(conversation_messages, messages)
          /\ loop_pc' = "input"
          /\ UNCHANGED <<messages, tool_i>>
     ELSE /\ messages' = Append(messages, response)
          /\ tool_i' = 1
          /\ loop_pc' = "tools"
          /\ UNCHANGED conversation_messages
  /\ UNCHANGED <<response, chat_log, executed, turns, turnVars, sessionVars>>
  /\ UNCHANGED besideLoopVars

\* one pass of the for loop: the call is executed and its result appended
ExecuteTool ==
  /\ loop_pc = "tools"
  /\ \E call \in {response.tool_calls[tool_i]} :
     \E name \in {CallName(call, tool_i, use_tools)} :
     \E args \in {CallArgs(call.arguments)} :
     \E external \in {HandledExternally(name, external_api_data)} :
     \E arguments \in {IF external /\ IsDict(call.arguments)
                       THEN ArgsAfterCall(OperationAt(external_api_data.operations_by_id, name),
                                          call.arguments)
                       ELSE call.arguments} :
     \E content \in {ToolResult(external_api_data, name, args)} :
       /\ messages' = Append(WithArguments(messages, ResponseAt(messages), tool_i, arguments),
                             ToolMessage(content))
       /\ response' = [response EXCEPT !.tool_calls[tool_i].arguments = arguments]
       /\ external_api_data' = CatalogAfterCall(external_api_data, name)
       /\ executed' = Append(executed, [name |-> name, external |-> external,
                                        turn |-> turns, at |-> Len(messages) + 1])
  /\ tool_i' = tool_i + 1
  /\ loop_pc' = IF BatchDone(tool_i, Len(response.tool_calls)) THEN "answering" ELSE "tools"
  /\ UNCHANGED <<conversation_messages, chat_log, turns, turnVars, session_tools>>
  /\ UNCHANGED besideLoopVars

\* execute_external_api raises (a timeout while the response is read, a URL
\* that is refused): the exception leaves _handle_tool_response and run()
ToolRaises ==
  /\ loop_pc = "tools"
  /\ HandledExternally(CallName(response.tool_calls[tool_i], tool_i, use_tools), external_api_data)
  /\ loop_pc' = "raised"
  /\ UNCHANGED <<conversation_messages, messages, response, tool_i, chat_log, executed, turns,
                 turnVars, sessionVars>>
  /\ UNCHANGED besideLoopVars

\* ollama.chat(model, messages) after the for loop returns
FollowUpAnswers ==
  /\ loop_pc = "answering"
  /\ response' \in Responses(Remaining)
  /\ chat_log' = Append(chat_log, [len |-> Len(messages), offered |-> FALSE])
  /\ loop_pc' = "handling"
  /\ UNCHANGED <<conversation_messages, messages, tool_i, executed, turns, turnVars, sessionVars>>
  /\ UNCHANGED besideLoopVars

\* ollama.chat(model, messages) after the for loop raises: no except clause
FollowUpRaises ==
  /\ loop_pc = "answering"
  /\ response' = [t |-> "Exception"]
  /\ chat_log' = Append(chat_log, [len |-> Len(messages), offered |-> FALSE])
  /\ loop_pc' = "raised"
  /\ UNCHANGED <<conversation_messages, messages, tool_i, executed, turns, turnVars, sessionVars>>
  /\ UNCHANGED besideLoopVars

NextLoop ==
  \/ ReadInput
  \/ ChatAnswers
  \/ ChatRaises
  \/ HandleResponse
  \/ ExecuteTool
  \/ ToolRaises
  \/ FollowUpAnswers
  \/ FollowUpRaises

(***************************************************************************)
(* Specifications                                                          *)
(***************************************************************************)
\* the keyword strategy applied to every utterance and catalog of the model
InitFilter == FilterInit /\ RouteIdle /\ ExecIdle /\ LaterIdle

SpecFilter == InitFilter /\ [][NextFilter]_vars

\* the argument router and the path filling applied to every operation and
\* argument payload of the model
InitRoute == RouteInit /\ FilterIdle /\ ExecIdle /\ LaterIdle

SpecRoute == InitRoute /\ [][NextRoute]_vars

InitExec == ExecInit /\ FilterIdle /\ RouteIdle /\ LaterIdle

SpecExec == InitExec /\ [][NextExec]_vars

\* the two delegated-reasoning resolvers called with every credential,
\* operation list and reply of the model
InitResolve == ResolveInit /\ BesideResolveIdle

SpecResolve == InitResolve /\ [][NextResolve]_vars

\* the per-operation synthesis applied to every operation list of the model
InitTools == ToolsInit /\ BesideToolsIdle

SpecTools == InitTools /\ [][NextTools]_vars

\* the catalog load of a session under every environment of the model, next
\* to the writer job
InitLoad == LoadInit /\ BesideLoadIdle

SpecLoad == InitLoad /\ [][NextLoad]_vars

\* a session of the dispatch loop with and without a catalog, for every
\* utterance, response and error of the model
InitLoop == LoopInit /\ BesideLoopIdle

SpecLoop == InitLoop /\ [][NextLoop]_vars

(***************************************************************************)
(* Claims about the keyword strategy (checked under SpecFilter)            *)
(***************************************************************************)
ToolNames(tools) == {ToolName(tools[i]) : i \in 1..Len(tools)}

\* the utterance names a keyword that has a resource (airport, passenger, hotel)
HasResourceKeyword(u) == WantedResources(Lower(u)) # {}

HasListIntent(u) == AnyIn(LIST_INTENT_PHRASES, Lower(u))

\* the tools the claim expects for a resource keyword with list intent: the
\* operation matches a keyword of the utterance in its operation_id or summary
\* (the operations carry no resource classification), and its path has no
\* parameter
ExpectedListTools ==
  {ToolName(external_only[i]) : i \in
     {j \in 1..Len(external_only) :
        LET op == OperationAt(op_ids, ToolName(external_only[j]))
        IN  /\ AnyIn(MatchSubstrings(Lower(user_input)),
                     Lower(op.operation_id \o <<" ">> \o op.summary))
            /\ ~Contains(op.path_template, <<"{">>)}}

\* the catalog of the example: Settings_GetAirports GET /airports and
\* Airports_GetPassengers GET /airports/{airportId}/passengers, no summaries
IsExampleCatalog ==
  /\ Len(op_ids) = 2
  /\ op_ids[1].operation_id = <<"A", "i", "r", "p", "o", "r", "t", "s", "_", "G", "e", "t", "P", "a", "s", "s", "e", "n", "g", "e", "r", "s">>
  /\ op_ids[2].operation_id = <<"S", "e", "t", "t", "i", "n", "g", "s", "_", "G", "e", "t", "A", "i", "r", "p", "o", "r", "t", "s">>
  /\ op_ids[1].summary = <<>>
  /\ op_ids[2].summary = <<>>

\* C3 (as claimed): for an utterance with a resource keyword and a list-intent
\* phrase the keyword strategy returns exactly the tools whose operation
\* matches the keyword and has no path parameters (when there is one); for
\* the example catalog and "list of airports" it returns exactly
\* {Settings_GetAirports}.
C3_ListOfAirportsRestricts ==
  (filter_pc = "offered" /\ HasResourceKeyword(user_input) /\ HasListIntent(user_input))
    => /\ ExpectedListTools # {} => ToolNames(use_tools) = ExpectedListTools
       /\ (IsExampleCatalog /\ user_input = <<"l", "i", "s", "t", " ", "o", "f", " ", "a", "i", "r", "p", "o", "r", "t", "s">>)
            => ToolNames(use_tools) = {<<"S", "e", "t", "t", "i", "n", "g", "s", "_", "G", "e", "t", "A", "i", "r", "p", "o", "r", "t", "s">>}

\* C4: the keyword strategy never returns an empty tool set for a non-empty
\* input: it returns a non-empty sub-list of its input, and the whole input
\* when no tool passes the keyword / list-intent filter.
C4_FilterNeverEmpty ==
  (filter_pc = "offered" /\ external_only # <<>>)
    => /\ use_tools # <<>>
       /\ ToolNames(use_tools) \subseteq ToolNames(external_only)
       /\ (\A i \in 1..Len(external_only) :
             ~KeepTool(external_only[i], op_ids, Lower(user_input)))
            => use_tools = external_only

\* C4 witness: a keyword matched, no tool passed the filter, and the input
\* tool set came back whole
C4_Witness ==
  /\ filter_pc = "offered"
  /\ external_only # <<>>
  /\ MatchSubstrings(Lower(user_input)) # <<>>
  /\ \A i \in 1..Len(external_only) :
       ~KeepTool(external_only[i], op_ids, Lower(user_input))
  /\ use_tools = external_only

(***************************************************************************)
(* Claims about the argument router and the path filling (SpecRoute)       *)
(***************************************************************************)
\* the location of a ParameterSpec: its "in", lower-cased, query when it has none
LocationOf(p) == IF Truthy(p.in) THEN Lower(p.in.s) ELSE <<"q", "u", "e", "r", "y">>

\* the names of the operation's ParameterSpecs at a location
SpecNames(operation, where) ==
  LET raw == operation.parameters_schema
  IN  IF raw.t # "list" THEN {}
      ELSE {raw.items[i].name.s :
              i \in {j \in 1..Len(raw.items) :
                       Truthy(raw.items[j].name) /\ LocationOf(raw.items[j]) = where}}

Entries(d) == {d.kv[i] : i \in 1..Len(d.kv)}

Keys(d) == {d.kv[i][1] : i \in 1..Len(d.kv)}

\* flat_args restricted to a set of names
ArgsRestrictedTo(names) ==
  IF IsDict(route_args) THEN {e \in Entries(route_args) : e[1] \in names} ELSE {}

\* C5: args_to_request_parts routes by schema only: path_params is flat_args
\* restricted to the names of the path-located ParameterSpecs, query_params is
\* flat_args restricted to the names of the query-located ones, each key once;
\* so no key absent from flat_args is added, a key matching no ParameterSpec is
\* in neither mapping, and an operation with no path parameter gets an empty
\* path_params. It returns for every payload, also one that is no dict.
C5_RoutesBySchemaOnly ==
  route_pc \in {"routed", "filled"}
    => /\ IsDict(routed.path_params) /\ IsDict(routed.query_params)
       /\ Entries(routed.path_params) = ArgsRestrictedTo(SpecNames(route_op, <<"p", "a", "t", "h">>))
       /\ Entries(routed.query_params) = ArgsRestrictedTo(SpecNames(route_op, <<"q", "u", "e", "r", "y">>))
       /\ Cardinality(Keys(routed.path_params)) = Len(routed.path_params.kv)
       /\ Cardinality(Keys(routed.query_params)) = Len(routed.query_params.kv)
       /\ SpecNames(route_op, <<"p", "a", "t", "h">>) = {} => routed.path_params = EmptyDict

\* C5 witness: a payload with a path argument, a query argument or an argument
\* of another location, routed: the path argument is in path_params and an
\* argument that matches no path or query ParameterSpec was dropped
C5_Witness ==
  /\ route_pc = "routed"
  /\ IsDict(route_args)
  /\ routed.path_params # EmptyDict
  /\ \E k \in Keys(route_args) :
       k \notin Keys(routed.path_params) \cup Keys(routed.query_params)

\* the filling the claim describes: one pass over the template, each {name}
\* that has a value replaced by the text of that value, all else verbatim
RECURSIVE ClaimedFill(_, _)
ClaimedFill(template, kv) ==
  IF template = <<>> THEN <<>>
  ELSE LET hits == {i \in 1..Len(kv) : MatchAt(template, <<"{">> \o kv[i][1] \o <<"}">>, 1)}
       IN  IF hits # {}
           THEN LET i == CHOOSE j \in hits : TRUE
                IN  StrOf(kv[i][2])
                      \o ClaimedFill(Slice(template, Len(kv[i][1]) + 3, Len(template)), kv)
           ELSE <<Head(template)>> \o ClaimedFill(Tail(template), kv)

\* kv with its entries i and j exchanged
Swapped(kv, i, j) == [kv EXCEPT ![i] = kv[j], ![j] = kv[i]]

\* C6 (as claimed): _fill_path_template replaces each {name} that has a value
\* in path_params by that parameter's own value and leaves everything else
\* verbatim, and its result does not depend on the order of the entries.
C6_FillIsLiteralAndOrderFree ==
  route_pc = "filled"
    => /\ ~route_path.raised
       /\ route_path.v = ClaimedFill(route_op.path_template, routed.path_params.kv)
       /\ \A i, j \in 1..Len(routed.path_params.kv) :
            fill_path_template(route_op.path_template,
                               PyDict(Swapped(routed.path_params.kv, i, j))) = route_path

(***************************************************************************)
(* Claims about the request executor (SpecExec)                            *)
(***************************************************************************)
\* operation_id is a key of the catalog's operation mapping
InCatalog == InOperations(ExecOperations, operation_id)

\* the operation the call names, when it is in the catalog
Operation == OperationAt(ExecOperations, operation_id)

\* a Request was handed to urlopen
Issued == req # NoRequest

\* C1 (as claimed): execute_external_api never raises; for every operation_id,
\* every path_params, query_params and request_body and every outcome of the
\* HTTP call, a call that has ended has returned a string.
C1_NeverRaises ==
  /\ exec_pc # "raised"
  /\ exc = "none"
  /\ exec_pc = "returned" => IsStr(result)

\* C2: a call whose operation_id is no key of the catalog returns the
\* "Unknown operation_id" string that names the id and hands no Request to
\* urlopen, whatever the other arguments are.
C2_UnknownOperationReturns ==
  (~InCatalog /\ exec_pc # "called")
    => /\ exec_pc = "returned"
       /\ result = PyStr(<<"U", "n", "k", "n", "o", "w", "n", " ", "o", "p", "e", "r", "a", "t", "i", "o", "n", "_", "i", "d", ":", " ">> \o operation_id)
       /\ req = NoRequest
       /\ resp = NotYet
       /\ exc = "none"

\* C2 witness: an id of no operation, called with a path_params string that
\* decodes to no mapping and with a request body, has returned
C2_Witness ==
  /\ operation_id = <<"H", "o", "t", "e", "l", "s", "_", "D", "e", "s", "t", "r", "o", "y">>
  /\ supplied.path_params = PyStr(<<"[", "1", "]">>)
  /\ supplied.request_body # PyNone
  /\ exec_pc = "returned"
  /\ req = NoRequest

\* the entries of query_params whose value is neither None nor ""
KeptQuery ==
  IF IsDict(query_params)
  THEN SelectSeq(query_params.kv, LAMBDA e : e[2] # PyNone /\ e[2] # PyStr(<<>>))
  ELSE <<>>

\* "?" and the kept entries as URL-encoded name=value pairs, or nothing
ExpectedQueryString ==
  IF KeptQuery = <<>> THEN <<>>
  ELSE <<"?">> \o Join(<<"&">>,
                       [i \in 1..Len(KeptQuery) |->
                          QuotePlus(KeptQuery[i][1]) \o <<"=">>
                            \o QuotePlus(StrOf(KeptQuery[i][2]))])

\* C7: the URL of the Request is base_url, then the filled path, then a query
\* string of exactly the query_params entries whose value is neither null nor
\* the empty string, and no "?" when there is no such entry.
C7_UrlIsBasePathQuery ==
  Issued
    => /\ req.url = BaseUrl \o fill_path_template(Operation.path_template, path_params).v
                      \o ExpectedQueryString
       /\ KeptQuery = <<>> => ~Contains(req.url, <<"?">>)

\* C7 witness: query_params {"limit": "", "page": "2"} yields only page=2
C7_Witness ==
  /\ Issued
  /\ operation_id = <<"H", "o", "t", "e", "l", "s", "_", "U", "p", "d", "a", "t", "e">>
  /\ query_params = PyDict(<< <<<<"l", "i", "m", "i", "t">>, PyStr(<<>>)>>, <<<<"p", "a", "g", "e">>, PyStr(<<"2">>)>> >>)
  /\ IsDict(supplied.path_params)
  /\ req.url = <<"h", "t", "t", "p", ":", "/", "/", "a", "p", "i", ".", "t", "e", "s", "t", "/", "h", "o", "t", "e", "l", "s", "/", "7", "?", "p", "a", "g", "e", "=", "2">>

\* C8: for an HTTP error status the call returns the text of the error body
\* when the body is not empty, and "HTTP <code>: <reason>" when it is.
C8_HttpErrorBodyOrStatus ==
  (resp # NotYet /\ resp.kind = "http_error")
    => /\ exec_pc = "returned"
       /\ result = IF resp.body # <<>>
                   THEN PyStr(Utf8Decode(resp.body))
                   ELSE PyStr(<<"H", "T", "T", "P", " ">> \o IntToStr(resp.code) \o <<":", " ">> \o resp.reason)
       /\ resp.body # <<>> => result.s # <<>>

\* C8 witness: a 404 with the body {"error":"not found"} returns that text
C8_Witness ==
  /\ resp # NotYet
  /\ resp.kind = "http_error"
  /\ resp.code = 404
  /\ resp.body = Utf8Encode(<<"{", "\"", "e", "r", "r", "o", "r", "\"", ":", "\"", "n", "o", "t", " ", "f", "o", "u", "n", "d", "\"", "}">>)
  /\ result = PyStr(<<"{", "\"", "e", "r", "r", "o", "r", "\"", ":", "\"", "n", "o", "t", " ", "f", "o", "u", "n", "d", "\"", "}">>)

HasHeader(name) == \E i \in 1..Len(req.headers) : req.headers[i][1] = name

HeaderValue(name) == req.headers[CHOOSE i \in 1..Len(req.headers) : req.headers[i][1] = name][2]

\* the Request carries a body and the JSON Content-Type
SendsBody ==
  /\ req.data # PyNone
  /\ HasHeader("Content-Type")
  /\ HeaderValue("Content-Type") = <<"application/json">>

\* the Request carries neither a body nor a Content-Type
SendsNoBody == req.data = PyNone /\ ~HasHeader("Content-Type")

\* C9 (as claimed): the Request carries a JSON body and Content-Type if and
\* only if the method is POST, PUT or PATCH and the supplied request_body is
\* not null; otherwise it carries neither.
C9_BodyIffSuppliedNonNull ==
  Issued
    => IF Upper(Operation.method) \in BodyMethods /\ supplied.request_body # PyNone
       THEN SendsBody
       ELSE SendsNoBody

\* the value a supplied request_body stands for: a string stands for the JSON
\* value it encodes, and for null when it is blank or not valid JSON
DecodedBody(v) ==
  IF IsStr(v)
  THEN IF JsonLoads(v.s).ok THEN JsonLoads(v.s).v ELSE PyNone
  ELSE v

\* C9 (amended): the Request carries a JSON body and Content-Type if and only
\* if the method is POST, PUT or PATCH and the request_body, a string replaced
\* by the JSON value it decodes to (null when blank or not valid JSON), is not
\* null; the body is the JSON encoding of that value; for GET and DELETE the
\* Request carries neither, whatever was supplied.
C9_BodyIffDecodedNonNull ==
  Issued
    => /\ IF Upper(Operation.method) \in BodyMethods
             /\ DecodedBody(supplied.request_body) # PyNone
          THEN /\ SendsBody
               /\ JsonLoads(Utf8Decode(req.data.b))
                    = [ok |-> TRUE, v |-> DecodedBody(supplied.request_body)]
          ELSE SendsNoBody
       /\ req.method \in {<<"G", "E", "T">>, <<"D", "E", "L", "E", "T", "E">>} => SendsNoBody

\* C9 witness: a POST whose request_body was supplied as a JSON string sends
\* the encoded object
C9_Witness ==
  /\ Issued
  /\ req.method = <<"P", "O", "S", "T">>
  /\ supplied.request_body = PyStr(<<"{", "\"", "n", "a", "m", "e", "\"", ":", " ", "\"", "R", "i", "t", "z", "\"", "}">>)
  /\ req.data # PyNone
  /\ req.data.b = Utf8Encode(<<"{", "\"", "n", "a", "m", "e", "\"", ":", " ", "\"", "R", "i", "t", "z", "\"", "}">>)
  /\ HasHeader("Content-Type")

\* a string that json.loads rejects
NotJson(v) == IsStr(v) /\ ~JsonLoads(v.s).ok

\* C10 (as claimed): a path_params or query_params passed as a string is
\* decoded into a mapping, a string that is not valid JSON is treated as the
\* empty mapping, and the call proceeds to issue the request.
C10_StringParamsBecomeMappings ==
  (InCatalog /\ exec_pc # "called"
     /\ (IsStr(supplied.path_params) \/ IsStr(supplied.query_params)))
    => /\ IsStr(supplied.path_params) => IsDict(path_params)
       /\ IsStr(supplied.query_params) => IsDict(query_params)
       /\ NotJson(supplied.path_params) => path_params = EmptyDict
       /\ NotJson(supplied.query_params) => query_params = EmptyDict
       /\ Issued

(***************************************************************************)
(* Claims about the delegated-reasoning resolvers (SpecResolve)            *)
(***************************************************************************)
\* the resolver was called without what it requires: its library, its
\* credential, a non-empty operation list
LacksRequirement ==
  \/ resolve_ops = <<>>
  \/ resolver = "openai" /\ (~openai_installed \/ api_key = PyNone \/ api_key = PyStr(<<>>))
  \/ resolver = "ollama" /\ ~ollama_installed

\* the reasoning service answered with a content
Answered == reply # NotYet /\ reply.kind = "content"

\* the text of the answer, surrounding whitespace removed
ReplyText == IF IsStr(reply.content) THEN Strip(reply.content.s) ELSE <<>>

StartsWith(s, pat) == MatchAt(s, pat, 1)

EndsWith(s, pat) == MatchAt(s, pat, Len(s) - Len(pat) + 1)

\* the text inside a markdown code fence: the opening fence with its optional
\* "json" tag and the closing fence removed
InsideFence(s) ==
  LET body == Slice(s, 4, Len(s) - 3)
  IN  Strip(IF StartsWith(body, <<"j", "s", "o", "n">>) THEN Slice(body, 5, Len(body)) ELSE body)

IsFenced(s) == Len(s) >= 6 /\ StartsWith(s, <<"GRAVE", "GRAVE", "GRAVE">>) /\ EndsWith(s, <<"GRAVE", "GRAVE", "GRAVE">>)

\* the JSON value of a reply that consists of one JSON text, wrapped in a
\* code fence or not
ReplyJson == JsonLoads(IF IsFenced(ReplyText) THEN InsideFence(ReplyText) ELSE ReplyText)

\* the reply is no JSON object with a non-empty operation_id
NoOperationNamed ==
  \/ ~ReplyJson.ok
  \/ ~IsDict(ReplyJson.v)
  \/ DictGet(ReplyJson.v.kv, <<"o", "p", "e", "r", "a", "t", "i", "o", "n", "_", "i", "d">>) \in {PyNone, PyStr(<<>>)}

\* the reply holds no "{" ... "}" that could enclose an object, and is no JSON
NoJsonAtAll == ~JsonLoads(ReplyText).ok /\ (Find(ReplyText, "{") = 0 \/ RFind(ReplyText, "}") = 0)

\* C11: a resolver that has returned has returned None whenever it lacked its
\* library, its credential or an operation list, the call of the reasoning
\* service failed, or the reply is not JSON or is an object without a
\* non-empty operation_id; no outcome of the service makes it raise.
C11_NoResolutionIsNone ==
  resolve_pc = "returned"
    => /\ resolved # NotYet
       /\ LacksRequirement => resolved = PyNone /\ reply = NotYet
       /\ (reply # NotYet /\ reply.kind = "failure") => resolved = PyNone
       /\ (Answered /\ (NoJsonAtAll \/ ((IsFenced(ReplyText) \/ ~Contains(ReplyText, <<"GRAVE", "GRAVE", "GRAVE">>))
                                         /\ NoOperationNamed)))
            => resolved = PyNone

\* C11 witness: a reply whose operation_id is empty gave None
C11_Witness ==
  /\ resolve_pc = "returned"
  /\ Answered
  /\ ReplyJson.ok
  /\ IsDict(ReplyJson.v)
  /\ DictGet(ReplyJson.v.kv, <<"o", "p", "e", "r", "a", "t", "i", "o", "n", "_", "i", "d">>) = PyStr(<<>>)
  /\ resolved = PyNone

\* the reply is one JSON object of the shape {operation_id, path_params,
\* query_params, request_body} with a non-empty operation_id and mappings
\* for path_params and query_params
IsShapedReply ==
  /\ Answered
  /\ ReplyJson.ok
  /\ IsDict(ReplyJson.v)
  /\ \A k \in {<<"o", "p", "e", "r", "a", "t", "i", "o", "n", "_", "i", "d">>, <<"p", "a", "t", "h", "_", "p", "a", "r", "a", "m", "s">>, <<"q", "u", "e", "r", "y", "_", "p", "a", "r", "a", "m", "s">>, <<"r", "e", "q", "u", "e", "s", "t", "_", "b", "o", "d", "y">>} :
       HasKey(ReplyJson.v.kv, k)
  /\ IsStr(DictGet(ReplyJson.v.kv, <<"o", "p", "e", "r", "a", "t", "i", "o", "n", "_", "i", "d">>))
  /\ DictGet(ReplyJson.v.kv, <<"o", "p", "e", "r", "a", "t", "i", "o", "n", "_", "i", "d">>) # PyStr(<<>>)
  /\ IsDict(DictGet(ReplyJson.v.kv, <<"p", "a", "t", "h", "_", "p", "a", "r", "a", "m", "s">>))
  /\ IsDict(DictGet(ReplyJson.v.kv, <<"q", "u", "e", "r", "y", "_", "p", "a", "r", "a", "m", "s">>))

\* C12: for a reply that is one such object, in a code fence or not, the
\* resolver returns a ResolvedCall of exactly the four fields, each equal to
\* the field of the object.
C12_ReturnsEnclosedObject ==
  (resolve_pc = "returned" /\ IsShapedReply)
    => /\ IsDict(resolved)
       /\ Len(resolved.kv) = 4
       /\ \A k \in {<<"o", "p", "e", "r", "a", "t", "i", "o", "n", "_", "i", "d">>, <<"p", "a", "t", "h", "_", "p", "a", "r", "a", "m", "s">>, <<"q", "u", "e", "r", "y", "_", "p", "a", "r", "a", "m", "s">>, <<"r", "e", "q", "u", "e", "s", "t", "_", "b", "o", "d", "y">>} :
            /\ HasKey(resolved.kv, k)
            /\ DictGet(resolved.kv, k) = DictGet(ReplyJson.v.kv, k)

\* C12 witness: the fenced reply naming Settings_GetHotels was returned as it is
C12_Witness ==
  /\ resolve_pc = "returned"
  /\ IsShapedReply
  /\ IsFenced(ReplyText)
  /\ resolved = PyDict(<< <<<<"o", "p", "e", "r", "a", "t", "i", "o", "n", "_", "i", "d">>, PyStr(<<"S", "e", "t", "t", "i", "n", "g", "s", "_", "G", "e", "t", "H", "o", "t", "e", "l", "s">>)>>,
                          <<<<"p", "a", "t", "h", "_", "p", "a", "r", "a", "m", "s">>, EmptyDict>>,
                          <<<<"q", "u", "e", "r", "y", "_", "p", "a", "r", "a", "m", "s">>, EmptyDict>>,
                          <<<<"r", "e", "q", "u", "e", "s", "t", "_", "b", "o", "d", "y">>, PyNone>> >>)

\* C13 (as claimed): the operation_id of every ResolvedCall a resolver returns
\* is the id of an operation of the list the resolver was given.
C13_ResolvedIdIsInList ==
  (resolve_pc = "returned" /\ resolved # PyNone)
    => \E i \in 1..Len(resolve_ops) :
         DictGet(resolved.kv, <<"o", "p", "e", "r", "a", "t", "i", "o", "n", "_", "i", "d">>) = PyStr(resolve_ops[i].operation_id)

(***************************************************************************)
(* Claims about the per-operation synthesis (SpecTools)                    *)
(***************************************************************************)
\* the path and query ParameterSpecs of an operation that have a name
KeyParams(operation) ==
  LET raw == operation.parameters_schema
  IN  IF raw.t # "list" THEN {}
      ELSE {raw.items[i] :
              i \in {j \in 1..Len(raw.items) :
                       /\ Truthy(raw.items[j].name)
                       /\ LocationOf(raw.items[j]) \in {<<"p", "a", "t", "h">>, <<"q", "u", "e", "r", "y">>}}}

\* the type hint of a ParameterSpec, string when it has none
TypeHint(p) ==
  IF IsDict(p.schema) /\ HasKey(p.schema.kv, <<"t", "y", "p", "e">>)
     /\ DictGet(p.schema.kv, <<"t", "y", "p", "e">>) # PyNone
  THEN DictGet(p.schema.kv, <<"t", "y", "p", "e">>)
  ELSE PyStr(<<"s", "t", "r", "i", "n", "g">>)

\* the argument schema of the i-th tool
ToolSchema(i) == dynamic_tools[i].function.parameters

\* C14: the synthesis yields one tool per operation, in the order of the
\* list and named by the operation_id; the keys of its argument schema are
\* the names of the operation's path and query parameters, and request_body
\* if and only if the method is POST, PUT or PATCH; each parameter key has
\* the type of a parameter of that name, string when it gives none; the
\* required list names the path and query parameters marked required.
C14_OneToolPerOperation ==
  tools_pc = "built"
    => /\ Len(dynamic_tools) = Len(tool_ops)
       /\ \A i \in 1..Len(tool_ops) :
            LET op    == tool_ops[i]
                props == DictGet(ToolSchema(i).kv, <<"p", "r", "o", "p", "e", "r", "t", "i", "e", "s">>)
                reqd  == DictGet(ToolSchema(i).kv, <<"r", "e", "q", "u", "i", "r", "e", "d">>)
            IN  /\ dynamic_tools[i].function.name = op.operation_id
                /\ Keys(props) = {p.name.s : p \in KeyParams(op)}
                                   \cup (IF Upper(op.method) \in {<<"P", "O", "S", "T">>, <<"P", "U", "T">>, <<"P", "A", "T", "C", "H">>}
                                         THEN {<<"r", "e", "q", "u", "e", "s", "t", "_", "b", "o", "d", "y">>} ELSE {})
                /\ Cardinality(Keys(props)) = Len(props.kv)
                /\ \A k \in Keys(props) \ {<<"r", "e", "q", "u", "e", "s", "t", "_", "b", "o", "d", "y">>} :
                     DictGet(DictGet(props.kv, k).kv, <<"t", "y", "p", "e">>)
                       \in {TypeHint(p) : p \in {q \in KeyParams(op) : q.name.s = k}}
                /\ {reqd.items[j] : j \in 1..Len(reqd.items)}
                     = {p.name : p \in {q \in KeyParams(op) : q.required = PyBool(TRUE)}}

\* C14 witness: a PUT operation followed by a GET operation; the first tool
\* has the keys id, force and request_body, the second airportId and limit,
\* of which airportId is required and limit is an integer
C14_Witness ==
  /\ tools_pc = "built"
  /\ Len(tool_ops) = 2
  /\ tool_ops[1].operation_id = <<"H", "o", "t", "e", "l", "s", "_", "U", "p", "d", "a", "t", "e">>
  /\ tool_ops[2].operation_id = <<"A", "i", "r", "p", "o", "r", "t", "s", "_", "G", "e", "t", "P", "a", "s", "s", "e", "n", "g", "e", "r", "s">>
  /\ Keys(DictGet(ToolSchema(1).kv, <<"p", "r", "o", "p", "e", "r", "t", "i", "e", "s">>)) = {<<"i", "d">>, <<"f", "o", "r", "c", "e">>, <<"r", "e", "q", "u", "e", "s", "t", "_", "b", "o", "d", "y">>}
  /\ Keys(DictGet(ToolSchema(2).kv, <<"p", "r", "o", "p", "e", "r", "t", "i", "e", "s">>)) = {<<"a", "i", "r", "p", "o", "r", "t", "I", "d">>, <<"l", "i", "m", "i", "t">>}
  /\ DictGet(ToolSchema(2).kv, <<"r", "e", "q", "u", "i", "r", "e", "d">>) = PyList(<<PyStr(<<"a", "i", "r", "p", "o", "r", "t", "I", "d">>)>>)
  /\ DictGet(DictGet(DictGet(ToolSchema(2).kv, <<"p", "r", "o", "p", "e", "r", "t", "i", "e", "s">>).kv, <<"l", "i", "m", "i", "t">>).kv, <<"t", "y", "p", "e">>)
       = PyStr(<<"i", "n", "t", "e", "g", "e", "r">>)

(***************************************************************************)
(* Claims about the catalog load                                           *)
(***************************************************************************)
\* the load yielded "absent": _load_external_api_tool returned ([], None)
Absent == load_pc = "session" /\ IsNone(external_api_data)

\* the session runs with the local tools only
LocalOnly ==
  /\ session_tools = InventoryTools
  /\ handled # NotYet => handled.route = "local"

\* a condition of the load that the backend is unconfigured, unreachable or
\* failed while queried, that the key is missing or matches nothing, or that
\* the credential is missing
LoadFellShort ==
  \/ load_pc = "raised"
  \/ /\ load_pc = "session"
     /\ \/ ConfigMissing(load_args)
        \/ loaded = NonePair

\* C15: the catalog load never ends in an error: when the backend is
\* unconfigured, unreachable or fails while queried, when the key is missing
\* or matches no source, or when the credential is missing, the load yields
\* "absent" and the session runs with the local tools only
C15_LoadNeverEndsInError ==
  /\ load_pc # "raised"
  /\ LoadFellShort => Absent /\ LocalOnly

\* the load returned a (base_url, operations) pair
ReturnedPair == load_pc = "session" /\ loaded # NotYet /\ loaded # NonePair

\* the pair a load returns that reads version v of the source alone
PairOf(v) ==
  <<PyStr(RStripSlash(v.base_url)), SelectOperations(v.operations, load_row.id)>>

\* C20: a load that runs next to the writer job returns the base URL and
\* the complete operation list of one single committed version of the
\* source, never the base URL of one version with the operations of another
\* and never a partly written operation list
C20_NoTornRead == ReturnedPair => \E v \in committed : loaded = PairOf(v)

(***************************************************************************)
(* Claims about the dispatch loop                                          *)
(***************************************************************************)
\* the tool-offering call of the turn raised
ToolCallFailed ==
  /\ loop_pc \in {"exit1", "raised"}
  /\ chat_log # <<>> /\ chat_log[Len(chat_log)].offered
  /\ "t" \in DOMAIN response /\ response.t \in {"ResponseError", "ConnectionError"}

\* the reasoning service reports that the model does not support tools
ReportsNoToolSupport(e) ==
  e.t = "ResponseError" /\ Contains(Lower(e.error), <<"d", "o", "e", "s", " ", "n", "o", "t", " ", "s", "u", "p", "p", "o", "r", "t", " ", "t", "o", "o", "l", "s">>)

\* C16: when the reasoning service reports on the tool-offering call that
\* the model does not support tool calling the session ends with a non-zero
\* exit, and no other error of the reasoning service is treated as that
\* condition
C16_OnlyUnsupportedToolsIsFatalExit ==
  ToolCallFailed => (loop_pc = "exit1" <=> ReportsNoToolSupport(response))

\* the positions in messages of the responses that carry tool calls
Batches == {p \in 1..Len(messages) : messages[p].role = "assistant"}

\* the number of tool results that follow the response at p
RECURSIVE ResultsAfter(_, _)
ResultsAfter(p, k) ==
  IF p + k + 1 <= Len(messages) /\ messages[p + k + 1].role = "tool"
  THEN ResultsAfter(p, k + 1) ELSE k

\* the result at p + i is the result of call i of the response at p
IsResultOf(p, i) ==
  \E k \in 1..Len(executed) :
    /\ executed[k].at = p + i
    /\ messages[p + i] =
         ToolMessage(ToolResult(external_api_data, executed[k].name,
                                CallArgs(messages[p].tool_calls[i].arguments)))
    /\ Truthy(messages[p].tool_calls[i].name)
         => executed[k].name = messages[p].tool_calls[i].name.s

\* the calls of the reasoning service made with the first len messages
CallsWith(len) == {c \in 1..Len(chat_log) : chat_log[c].len = len}

\* the for loop is at work on the response at p
InProgress(p) == loop_pc = "tools" /\ p = ResponseAt(messages)

\* the results of the response at p, as many as done, are those of its first
\* calls in order, and no call of the reasoning service fell between them
InOrder(p, done) ==
  /\ \A i \in 1..done : IsResultOf(p, i)
  /\ \A i \in 0..(done - 1) : CallsWith(p + i) = {}

\* C17: a response with n tool calls gets exactly n tool results appended,
\* one per call in the order of the calls, then exactly one more call of the
\* reasoning service with the history so far; this repeats while the new
\* response carries tool calls, and the turn ends with the first response
\* that carries none
C17_BatchThenOneCall ==
  /\ \A p \in Batches :
       LET n == Len(messages[p].tool_calls)
       IN  IF InProgress(p)
           THEN ResultsAfter(p, 0) = tool_i - 1 /\ InOrder(p, tool_i - 1)
           ELSE /\ ResultsAfter(p, 0) = n
                /\ InOrder(p, n)
                /\ Cardinality(CallsWith(p + n)) =
                     IF loop_pc = "answering" /\ p + n = Len(messages) THEN 0 ELSE 1
                /\ \A c \in CallsWith(p + n) : ~chat_log[c].offered
  /\ (loop_pc = "input" /\ turns > 0) => response.tool_calls = <<>>

\* s is a prefix of q
IsPrefix(s, q) == Len(s) <= Len(q) /\ SubSeq(q, 1, Len(s)) = s

\* the history of the session: what the turn has appended so far while a
\* turn runs, what is carried to the next turn otherwise
History ==
  IF Len(messages) > Len(conversation_messages) THEN Tail(messages)
  ELSE conversation_messages

\* the tool results of the history
ToolResultsIn(history) == {p \in 1..Len(history) : history[p].role = "tool"}

\* C18: the history is append-only: a step of the session leaves the
\* history as a prefix of the history after it
C18_HistoryAppendOnly ==
  [][/\ IsPrefix(History, History')
     /\ IsPrefix(conversation_messages, conversation_messages')
     /\ IsPrefix(messages, messages')]_vars

\* every call of the reasoning service was made with the history of that
\* moment, which holds every tool result appended before it
C18_Witness ==
  /\ turns = 2
  /\ loop_pc = "handling"
  /\ \E p \in ToolResultsIn(History) :
       /\ \E k \in 1..Len(executed) : executed[k].at = p + 1 /\ executed[k].turn = 1
       /\ chat_log[Len(chat_log)].len > p + 1
       /\ chat_log[Len(chat_log)].offered

\* the responses of the history keep the arguments of their tool calls
ArgumentsKept ==
  \A p \in DOMAIN messages :
    messages[p].role = "assistant" => p \in DOMAIN messages' /\ messages'[p] = messages[p]

\* C19: the catalog (base_url, bearer_token, the operation mapping and the
\* descriptor of every operation) is read-only after construction: no step
\* of the dispatch loop, the keyword filter, the argument router or the
\* request executor changes it, and the flat arguments handed to the
\* argument router are left as they were
C19_CatalogAndArgsReadOnly ==
  [][external_api_data' = external_api_data /\ session_tools' = session_tools
     /\ ArgumentsKept]_vars

\* an operation of the catalog was called with a dict of arguments in one
\* turn and the keyword filter ran in the next
C19_Witness ==
  /\ ~IsNone(external_api_data)
  /\ turns = 2
  /\ loop_pc = "thinking"
  /\ Len(use_tools) < Len(session_tools)
  /\ \E k \in 1..Len(executed) :
       /\ executed[k].external
       /\ \E p \in Batches, i \in 1..2 :
            /\ p + i = executed[k].at
            /\ i <= Len(messages[p].tool_calls)
            /\ IsDict(messages[p].tool_calls[i].arguments)
            /\ HasKey(messages[p].tool_calls[i].arguments.kv, <<"r", "e", "q", "u", "e", "s", "t", "_", "b", "o", "d", "y">>)

\* a turn has completed: the response without tool calls was handled and
\* run() waits for the next utterance
TurnCompleted == loop_pc = "input" /\ turns > 0

\* the entries of the history that the turn in progress or just completed
\* appended: those from its user message on
TurnEntries ==
  LET start == CHOOSE p \in 1..Len(conversation_messages) :
                 /\ conversation_messages[p].role = "user"
                 /\ \A q \in (p + 1)..Len(conversation_messages) :
                      conversation_messages[q].role # "user"
  IN  SubSeq(conversation_messages, start, Len(conversation_messages))

\* C21: after a turn completes, the history carried into the next turn
\* holds the user message of the turn and every assistant and tool message
\* of the turn in the order they occurred, the final answer of the
\* assistant included
C21_TurnCarriedWithFinalAnswer ==
  TurnCompleted =>
    /\ Head(TurnEntries) = UserMessage(user_input)
    /\ TurnEntries[Len(TurnEntries)].role = "assistant"
    /\ TurnEntries[Len(TurnEntries)].content = response.content

\* the names of the tools offered to the reasoning service for the turn
OfferedNames == {ToolName(use_tools[i]) : i \in 1..Len(use_tools)}

\* the executed call ran a tool: an external operation or a local handler
RanTool(e) ==
  e.external \/ \E i \in 1..Len(InventoryToolNames) : InventoryToolNames[i] = e.name

\* C22: every tool the dispatch loop executes during a turn, an external
\* operation or a local handler, has a name of the tool set offered to the
\* reasoning service for that turn, on the first response and on every
\* follow-up response of the turn
C22_ExecutedToolWasOffered ==
  \A k \in 1..Len(executed) :
    (executed[k].turn = turns /\ RanTool(executed[k])) => executed[k].name \in OfferedNames

====
